---- MODULE Spec2Model ----
(***************************************************************************)
(* A model of maguro/pbf: the streaming decoder pipeline of decoder.go     *)
(* (read -> decode workers -> coalesce -> Decode, with Close) and the      *)
(* encoder pipeline of the v2 Encoder.                                     *)
(*                                                                         *)
(* Go channels are modelled as sequences with a capacity.  An unbuffered   *)
(* channel (capacity 0) hands a value over only when its receiver is       *)
(* parked at the receive statement: the sender then places the value and   *)
(* the receiver, which has nothing else to do, takes it.                   *)
(***************************************************************************)
EXTENDS Integers, Sequences, FiniteSets, TLC

\* ------------------------------------------------------------------ bounds
MaxCpu == 2
MaxChanLen == 1
MaxBlobs == 3
MaxEnts == 2
MaxCloseCalls == 2
MaxEofReturns == 2
\* the scaled-down "1,000 entities" of TestDecoderStop
CloseAfter == 1
\* EncodeBatch calls, and entities per call
MaxEncodeCalls == 2
MaxSlice == 2
\* the scaled-down EntityLimit = 8000 of internal/encoder/primitive.go
EntityLimit == 2
MaxOpts == 2
MaxPayload == 2

\* --------------------------------------------------------------- variables
VARIABLES
    \* decoderOptions (decoder.go:76-82), fixed at construction
    nCPU, inputChannelLength, outputChannelLength, decodedChannelLength,
    \* the context of NewDecoder: TRUE once cancel() has run
    ctxDone,
    \* the data frames the reader has taken off the stream so far, in file
    \* order, and how the stream ended ("" while the reader still runs)
    file, tail,
    \* read goroutine: its position, its round-robin index i
    rpc, ri,
    \* chan encoded per worker, closed by the reader's deferred function
    inputs, inputsClosed,
    \* decode goroutines: position and the value about to be sent
    wpc, wval,
    \* chan decoded per worker
    outputs, outputsClosed,
    \* coalesce goroutine: position, round-robin index i, pairs left to send
    mpc, mi, mq,
    \* chan pair
    pairs, pairsClosed,
    \* the consumer: idle or parked in Decode; what Decode has returned
    cpc, returned,
    \* Close() calls so far, and whether the first one came when exactly
    \* CloseAfter entities had been returned
    closeCalls, closedAtMark

decVars == <<nCPU, inputChannelLength, outputChannelLength, decodedChannelLength,
             ctxDone, file, tail, rpc, ri, inputs, inputsClosed, wpc, wval,
             outputs, outputsClosed, mpc, mi, mq, pairs, pairsClosed,
             cpc, returned, closeCalls, closedAtMark>>

\* The encoder (unnamed/part_010, internal/encoder/batch.go).
VARIABLES
    \* the caller: its position, the slice it is sending, EncodeBatch and
    \* Close calls so far, Close calls that have returned, and the entities
    \* of the EncodeBatch calls that have returned, in order
    epc, esending, encodeCalls, encCloseCalls, encCloseReturns, accepted,
    \* Encoder.err, Encoder.close (sync.Once), whether Entities is closed and
    \* how many times close(e.Entities) has run
    eerr, closeOnce, entitiesClosed, entitiesCloses,
    \* Coalesce's goroutine: its position and the rest of its slice
    ppc, pcur,
    \* batchEntities per type lane: position and the batch being filled
    lpc, lacc,
    \* rill.Merge: position and the batch in hand
    gpc, gcur,
    \* ExtractBoundingBoxes' goroutine: position and the batch in hand
    xpc, xcur,
    \* the items held by the two rill.OrderedMap stages, in input order
    encq, packq,
    \* SavePacked's goroutine: position, the status in hand; the scratch
    \* file cfg.wrtr as the frames written to it; the first error SaveBlock
    \* has returned
    spc, sstatus, scratch, firstFailure,
    \* Encoder.completed, which consumers have returned, Header.BoundingBox
    completed, bboxesDone, statusesDone, bbox,
    \* writeHeaderAndBody: position; the final writer Encoder.wrtr as the
    \* frames written to it
    hpc, wrtr,
    \* a goroutine has panicked: the process is gone
    panicked,
    \* NewEncoder: the options it was called with, the configuration cfg
    \* they gave, and what it returned
    opts, cfg, nret,
    \* a function of the codec applied on its own: the call with its
    \* arguments, and what it gave
    call, result,
    \* core's bufferPool; the goroutine of a DecodeBatch call with its output
    \* channel; the functions of the blob reader that hold a pooled buffer
    pool, dbatch, rdr

encVars == <<epc, esending, encodeCalls, encCloseCalls, encCloseReturns, accepted,
             eerr, closeOnce, entitiesClosed, entitiesCloses, ppc, pcur, lpc, lacc, gpc, gcur,
             xpc, xcur, encq, packq, spc, sstatus, scratch, firstFailure,
             completed, bboxesDone, statusesDone, bbox, hpc, wrtr, panicked,
             opts, cfg, nret, call, result, pool, dbatch, rdr>>

vars == <<decVars, encVars>>

\* ------------------------------------------------------------------ values
Nil == "nil"
\* no function has been applied
NoCall == [fn |-> "-"]

\* The buffers that bufferPool's New can make, each with the number of times
\* it sits in the pool and whether it holds bytes (buffer.go:22-30); none is
\* made yet.
MaxBuffers == 3
Buffers == 1 .. MaxBuffers
NoBuffer == 0
PoolInit == [free |-> [b \in Buffers |-> 0], len |-> [b \in Buffers |-> 0], made |-> 0]
\* no DecodeBatch has been called; no function of the blob reader runs
NoBatch ==
    [pc |-> "idle", array |-> <<>>, i |-> 0, val |-> Nil, out |-> <<>>, closed |-> FALSE,
     buf |-> NoBuffer]
NoReader == [outer |-> "-", obuf |-> NoBuffer, inner |-> "-", ibuf |-> NoBuffer]
EOF == "io.EOF"
ErrDecode == "decode error"

Lanes == 0..(nCPU - 1)

\* A data frame as the reader sees it: a blob that decodes to n entities, or
\* one whose decompression or parse fails.
OkFrames == [kind : {"ok"}, n : 1..MaxEnts]
Frames == OkFrames \cup {[kind |-> "bad", n |-> 0]}

\* The entities of blob k, in block order.
EntitiesOf(k) == [j \in 1..file[k].n |-> <<k, j>>]

\* ---------------------------------------------------------------- channels
\* A send can proceed: there is room in the buffer, or the channel is
\* unbuffered and its receiver is parked at the receive.
CanSend(q, cap, receiverParked) ==
    \/ Len(q) < cap
    \/ cap = 0 /\ q = <<>> /\ receiverParked


\* ------------------------------------------------------------------ reader
\* What the stream holds at the reader's position: a whole frame, the end of
\* the stream at a frame boundary, or a stream cut short or damaged inside
\* the length prefix, the BlobHeader bytes or the Blob bytes.
StreamEvents ==
    {"frame", "end", "shortPrefix", "shortHeader", "badHeader", "shortBlob", "badBlob"}

\* blobReader.readBlobHeader: binary.Read gives io.EOF when no byte is left
\* and io.ErrUnexpectedEOF inside the prefix; io.CopyN gives io.EOF whenever
\* the source ends before size bytes; proto.Unmarshal gives its own error.
readBlobHeader(ev) ==
    CASE ev = "end"         -> EOF
      [] ev = "shortPrefix" -> "io.ErrUnexpectedEOF"
      [] ev = "shortHeader" -> EOF
      [] ev = "badHeader"   -> "proto error"
      [] OTHER              -> Nil

\* blobReader.readBlob: io.CopyN of datasize bytes, then proto.Unmarshal.
readBlob(ev) ==
    CASE ev = "shortBlob" -> EOF
      [] ev = "badBlob"   -> "proto error"
      [] OTHER            -> Nil

\* i = (i + 1) % n of read (decoder.go:218)
readNextLane(i) == (i + 1) % nCPU

\* A merger that keeps reading the same output.
coalesceSameLane(i) == i

\* i = (i + 1) % n of coalesce (decoder.go:290)
coalesceNextLane(i) == (i + 1) % nCPU

\* The select of read (decoder.go:234-238): with the context cancelled the
\* return case is ready; with room in the channel the send case is ready; Go
\* picks any ready case.
SelectDone == ctxDone
SelectSend(i) == CanSend(inputs[i], inputChannelLength, wpc[i] = "recv")

\* A reader that returns without closing its inputs.
ReaderReturnsNoClose(how) ==
    /\ rpc' = "done"
    /\ tail' = how
    /\ UNCHANGED inputsClosed

\* The reader returns: its deferred function closes every input
\* (decoder.go:206-210).
ReaderReturns(how) ==
    /\ rpc' = "done"
    /\ tail' = how
    /\ inputsClosed' = TRUE

\* One iteration of the loop of read (decoder.go:216-239), on a stream that
\* holds one of events next and whose whole frames are among frames.
readFrom(events, frames) ==
    /\ rpc = "run"
    /\ ri' = readNextLane(ri)
    /\ \E ev \in events :
         LET k == Len(file) + 1
             herr == readBlobHeader(ev)
             berr == readBlob(ev)
         IN  IF herr = EOF
               THEN /\ ReaderReturns(ev)
                    /\ UNCHANGED <<file, inputs>>
             ELSE IF herr # Nil
               THEN \* input <- encoded{err: err}: a plain send
                    /\ CanSend(inputs[ri], inputChannelLength, wpc[ri] = "recv")
                    /\ inputs' = [inputs EXCEPT ![ri] = Append(@, [blob |-> k, err |-> herr])]
                    /\ ReaderReturns(ev)
                    /\ UNCHANGED file
             ELSE IF berr # Nil
               THEN /\ CanSend(inputs[ri], inputChannelLength, wpc[ri] = "recv")
                    /\ inputs' = [inputs EXCEPT ![ri] = Append(@, [blob |-> k, err |-> berr])]
                    /\ ReaderReturns(ev)
                    /\ UNCHANGED file
             ELSE /\ k <= MaxBlobs
                  /\ \E f \in frames :
                       /\ file' = Append(file, f)
                       /\ \/ /\ SelectDone
                             /\ ReaderReturns("cancel")
                             /\ UNCHANGED inputs
                          \/ /\ SelectSend(ri)
                             /\ inputs' = [inputs EXCEPT ![ri] = Append(@, [blob |-> k, err |-> Nil])]
                             /\ UNCHANGED <<rpc, tail, inputsClosed>>
    /\ UNCHANGED <<nCPU, inputChannelLength, outputChannelLength, decodedChannelLength,
                   ctxDone, wpc, wval, outputs, outputsClosed, mpc, mi, mq,
                   pairs, pairsClosed, cpc, returned, closeCalls, closedAtMark>>
    /\ UNCHANGED encVars

\* Any stream: whole frames that decode or fail to, then its end or damage.
read == readFrom(StreamEvents, Frames)

\* A well-formed stream: whole frames that decode, then its end.
readWellFormed == readFrom({"frame", "end"}, OkFrames)

\* ----------------------------------------------------------------- workers
\* A decode that loses all but the first entity of a block.
elementsFirstOnly(k) ==
    IF file[k].kind = "ok"
    THEN [blob |-> k, elements |-> << <<k, 1>> >>, err |-> Nil]
    ELSE [blob |-> k, elements |-> <<>>, err |-> ErrDecode]

\* elements (decoder.go:316-368) on data blob k: its entities, or the error
\* of a failed decompression or parse.
elements(k) ==
    IF file[k].kind = "ok"
    THEN [blob |-> k, elements |-> EntitiesOf(k), err |-> Nil]
    ELSE [blob |-> k, elements |-> <<>>, err |-> ErrDecode]

\* A worker that returns without closing its output.
decodeReturnsNoClose(i) ==
    /\ wpc' = [wpc EXCEPT ![i] = "done"]
    /\ UNCHANGED outputsClosed

\* A worker returns: defer close(output) (decoder.go:254).
decodeReturns(i) ==
    /\ wpc' = [wpc EXCEPT ![i] = "done"]
    /\ outputsClosed' = [outputsClosed EXCEPT ![i] = TRUE]

\* raw, more := <-input and what follows up to the send (decoder.go:257-267)
decodeRecv(i) ==
    /\ wpc[i] = "recv"
    /\ IF inputs[i] # <<>>
       THEN LET raw == Head(inputs[i])
            IN  /\ inputs' = [inputs EXCEPT ![i] = Tail(@)]
                /\ IF raw.err # Nil
                   THEN /\ wval' = [wval EXCEPT ![i] = [blob |-> raw.blob, elements |-> <<>>, err |-> raw.err]]
                        /\ wpc' = [wpc EXCEPT ![i] = "sendReturn"]
                   ELSE /\ wval' = [wval EXCEPT ![i] = elements(raw.blob)]
                        /\ wpc' = [wpc EXCEPT ![i] = "send"]
                /\ UNCHANGED outputsClosed
       ELSE /\ inputsClosed
            /\ decodeReturns(i)
            /\ UNCHANGED <<inputs, wval>>
    /\ UNCHANGED outputs

\* output <- decoded{...} (decoder.go:263, 269); after a reader error the
\* worker returns and its deferred close(output) runs.
decodeSend(i) ==
    /\ wpc[i] \in {"send", "sendReturn"}
    /\ CanSend(outputs[i], outputChannelLength, mpc = "recv" /\ mi = i)
    /\ outputs' = [outputs EXCEPT ![i] = Append(@, wval[i])]
    /\ IF wpc[i] = "sendReturn"
       THEN decodeReturns(i)
       ELSE /\ wpc' = [wpc EXCEPT ![i] = "recv"]
            /\ UNCHANGED outputsClosed
    /\ UNCHANGED <<inputs, wval>>

decode(i) ==
    /\ decodeRecv(i) \/ decodeSend(i)
    /\ UNCHANGED <<nCPU, inputChannelLength, outputChannelLength, decodedChannelLength,
                   ctxDone, file, tail, rpc, ri, inputsClosed, mpc, mi, mq,
                   pairs, pairsClosed, cpc, returned, closeCalls, closedAtMark>>
    /\ UNCHANGED encVars

\* ------------------------------------------------------------------ merger
\* The pairs coalesce sends for one decoded value (decoder.go:299-306).
PairsOf(d) ==
    IF d.err # Nil
    THEN << [element |-> <<>>, err |-> d.err] >>
    ELSE [j \in 1..Len(d.elements) |-> [element |-> d.elements[j], err |-> Nil]]

\* decoded, more := <-output (decoder.go:289-302)
coalesceRecv ==
    /\ mpc = "recv"
    /\ IF outputs[mi] # <<>>
       THEN LET d == Head(outputs[mi])
            IN  /\ outputs' = [outputs EXCEPT ![mi] = Tail(@)]
                /\ mi' = coalesceNextLane(mi)
                /\ mq' = PairsOf(d)
                /\ mpc' = IF d.err # Nil THEN "sendReturn"
                          ELSE IF PairsOf(d) = <<>> THEN "recv" ELSE "send"
                /\ UNCHANGED pairsClosed
       ELSE /\ outputsClosed[mi]
            /\ mpc' = "done"
            /\ pairsClosed' = TRUE
            /\ mi' = coalesceNextLane(mi)
            /\ UNCHANGED <<outputs, mq>>
    /\ UNCHANGED pairs

\* pairs <- pair{...} (decoder.go:300, 305)
coalesceSend ==
    /\ mpc \in {"send", "sendReturn"}
    /\ CanSend(pairs, decodedChannelLength, cpc = "wait")
    /\ pairs' = Append(pairs, Head(mq))
    /\ mq' = Tail(mq)
    /\ IF mpc = "sendReturn"
       THEN mpc' = "done" /\ pairsClosed' = TRUE
       ELSE /\ mpc' = IF Tail(mq) = <<>> THEN "recv" ELSE "send"
            /\ UNCHANGED pairsClosed
    /\ UNCHANGED <<outputs, mi>>

coalesce ==
    /\ coalesceRecv \/ coalesceSend
    /\ UNCHANGED <<nCPU, inputChannelLength, outputChannelLength, decodedChannelLength,
                   ctxDone, file, tail, rpc, ri, inputs, inputsClosed, wpc, wval,
                   outputsClosed, cpc, returned, closeCalls, closedAtMark>>
    /\ UNCHANGED encVars

\* ---------------------------------------------------------------- consumer
EofReturns == Cardinality({p \in 1..Len(returned) : returned[p] = [element |-> <<>>, err |-> EOF, more |-> FALSE]})

\* The consumer calls Decode and parks at <-d.pairs (decoder.go:184).
DecodeCall ==
    /\ cpc = "idle"
    /\ EofReturns < MaxEofReturns
    /\ cpc' = "wait"
    /\ UNCHANGED <<nCPU, inputChannelLength, outputChannelLength, decodedChannelLength,
                   ctxDone, file, tail, rpc, ri, inputs, inputsClosed, wpc, wval,
                   outputs, outputsClosed, mpc, mi, mq, pairs, pairsClosed,
                   returned, closeCalls, closedAtMark>>
    /\ UNCHANGED encVars

\* Decode returns the received pair, or io.EOF once pairs is closed and empty
\* (decoder.go:184-189).
DecodeReturn ==
    /\ cpc = "wait"
    /\ IF pairs # <<>>
       THEN /\ returned' = Append(returned, [element |-> Head(pairs).element,
                                             err |-> Head(pairs).err, more |-> TRUE])
            /\ pairs' = Tail(pairs)
       ELSE /\ pairsClosed
            /\ returned' = Append(returned, [element |-> <<>>, err |-> EOF, more |-> FALSE])
            /\ UNCHANGED pairs
    /\ cpc' = "idle"
    /\ UNCHANGED <<nCPU, inputChannelLength, outputChannelLength, decodedChannelLength,
                   ctxDone, file, tail, rpc, ri, inputs, inputsClosed, wpc, wval,
                   outputs, outputsClosed, mpc, mi, mq, pairsClosed,
                   closeCalls, closedAtMark>>
    /\ UNCHANGED encVars

\* The entities Decode has returned so far, in order.
ReturnedEntities == SelectSeq(returned, LAMBDA r : r.err = Nil)

\* A cancel that toggles instead of latching.
cancelToggle == ctxDone' = ~ctxDone

\* The CancelFunc of context.WithCancel (decoder.go:141): the first call
\* closes Done, later calls do nothing.
cancel == ctxDone' = TRUE

\* Decoder.Close (decoder.go:193-195): d.cancel().
Close ==
    /\ closeCalls < MaxCloseCalls
    /\ cancel
    /\ closeCalls' = closeCalls + 1
    /\ closedAtMark' = IF closeCalls = 0 THEN Len(ReturnedEntities) = CloseAfter ELSE closedAtMark
    /\ UNCHANGED <<nCPU, inputChannelLength, outputChannelLength, decodedChannelLength,
                   file, tail, rpc, ri, inputs, inputsClosed, wpc, wval,
                   outputs, outputsClosed, mpc, mi, mq, pairs, pairsClosed,
                   cpc, returned>>
    /\ UNCHANGED encVars

\* ================================================================= encoder
\* The dynamic types a model.Entity can have: Node, Way and Relation
\* implement the interface with value receivers (model/entities.go:61-63,
\* 85-87, 131-133), so both the structs and pointers to them are entities.
PointerTypes == {"*Node", "*Way", "*Relation"}
ValueTypes == {"Node", "Way", "Relation"}
EntityTypes == PointerTypes \cup ValueTypes

\* A caller that pushes pointers of the three types and, for the entities
\* that pass no lane filter, Node values.
LiveTypes == PointerTypes \cup {"Node"}

\* The three lanes of Coalesce, in the order its goroutine sends to them, and
\* the type parameter of each (batch.go:32-34).
LaneNames == {"nch", "rch", "wch"}
LaneType(l) ==
    CASE l = "nch" -> "*Node"
      [] l = "rch" -> "*Relation"
      [] l = "wch" -> "*Way"

\* The coordinates of a node: the model gives the node pushed as number id
\* the latitude id and the longitude -id.
Lat(e) == e.id
Lon(e) == 0 - e.id

MaxLat == 90
MaxLon == 180
MinLat == -90
MinLon == -180

\* model.InitialBoundingBox (model/bbox.go:23-30)
InitialBoundingBox == [top |-> MinLat, left |-> MaxLon, bottom |-> MaxLat, right |-> MinLon]

\* An ExpandWithLatLng that moves the top down to the point.
ExpandWithLatLngTopDown(b, lat, lng) ==
    [top    |-> IF b.top > lat THEN lat ELSE b.top,
     bottom |-> IF b.bottom > lat THEN lat ELSE b.bottom,
     left   |-> IF b.left > lng THEN lng ELSE b.left,
     right  |-> IF b.right < lng THEN lng ELSE b.right]

\* BoundingBox.ExpandWithLatLng (model/bbox.go:45-61)
ExpandWithLatLng(b, lat, lng) ==
    [top    |-> IF b.top < lat THEN lat ELSE b.top,
     bottom |-> IF b.bottom > lat THEN lat ELSE b.bottom,
     left   |-> IF b.left > lng THEN lng ELSE b.left,
     right  |-> IF b.right < lng THEN lng ELSE b.right]

\* BoundingBox.ExpandWithBoundingBox (model/bbox.go:63-79)
ExpandWithBoundingBox(b, o) ==
    [top    |-> IF b.top < o.top THEN o.top ELSE b.top,
     bottom |-> IF b.bottom > o.bottom THEN o.bottom ELSE b.bottom,
     left   |-> IF b.left > o.left THEN o.left ELSE b.left,
     right  |-> IF b.right < o.right THEN o.right ELSE b.right]

RECURSIVE BatchBBox(_)
\* The loop of ExtractBoundingBoxes over one batch (batch.go:55-61): only
\* a *model.Node expands the box.
BatchBBox(entities) ==
    IF entities = <<>> THEN InitialBoundingBox
    ELSE LET e == entities[Len(entities)]
             b == BatchBBox(SubSeq(entities, 1, Len(entities) - 1))
         IN  IF e.type = "*Node" THEN ExpandWithLatLng(b, Lat(e), Lon(e)) ELSE b

\* The block of an encode that panics.
Panic == [kind |-> "panic", ents |-> <<>>]

\* blockContext.extractPrimitiveBlock (primitive.go:99-124) with
\* extractDenseNodes, extractWays and extractRelations: the type of
\* entities[0] picks the group, which takes the entities of that type.
extractPrimitiveBlock(entities) ==
    IF entities = <<>> THEN Panic
    ELSE IF entities[1].type \in PointerTypes
    THEN [kind |-> entities[1].type,
          ents |-> SelectSeq(entities, LAMBDA e : e.type = entities[1].type)]
    ELSE Panic

\* encoder.EncodeBatch (batch.go:80-82)
EncodeBatch(batch) == extractPrimitiveBlock(batch)

\* The frame SaveBlock writes for a packed block (primitive.go:49-69), and
\* the one SaveHeader writes through writeBlob (header.go:27-50,
\* blob.go:35-55).
DataFrame(block) == [type |-> "OSMData", body |-> block]
HeaderFrame(b) ==
    [type |-> "OSMHeader", body |-> b, required_features |-> cfg.requiredFeatures]

ErrPack == "pack error"
ErrWrite == "write error"
\* the sentinel NewEncoder's test expects (encoder_test.go:20)
ErrCreateTempFile == "ErrCreateTempFile"

numConsumers == 2
singleCPU == 5

Alive == ~panicked

callerVars == <<epc, esending, encodeCalls, encCloseCalls, encCloseReturns, accepted>>
onceVars == <<eerr, closeOnce, entitiesClosed, entitiesCloses>>
producerVars == <<ppc, pcur>>
laneVars == <<lpc, lacc>>
mergeVars == <<gpc, gcur>>
extractVars == <<xpc, xcur>>
saverVars == <<spc, sstatus, scratch, firstFailure>>
consumerVars == <<completed, bboxesDone, statusesDone, bbox>>
writerVars == <<hpc, wrtr>>
ctorVars == <<opts, cfg, nret>>
bufVars == <<pool, dbatch, rdr>>
pureVars == <<call, result, bufVars>>

\* ------------------------------------------------------------------ caller
\* Encoder.EncodeBatch (part_010:137-141) is entered with a slice of
\* entities, numbered in push order, and parks at e.Entities <- entities.
\* Encode (part_010:132-134) is the call with a slice of one.
EncodeBatchOf(types) ==
    /\ Alive
    /\ epc = "idle"
    /\ encodeCalls < MaxEncodeCalls
    /\ \E n \in 0..MaxSlice : \E ts \in [1..n -> types] :
         esending' = [j \in 1..n |-> [type |-> ts[j], id |-> Len(accepted) + j]]
    /\ epc' = "send"
    /\ encodeCalls' = encodeCalls + 1
    /\ UNCHANGED <<encCloseCalls, encCloseReturns, accepted>>
    /\ UNCHANGED <<onceVars, producerVars, laneVars, mergeVars, extractVars, encq, packq,
                   saverVars, consumerVars, writerVars, panicked, ctorVars, pureVars>>
    /\ UNCHANGED decVars

\* The caller pushes entities of any dynamic type.
EncoderEncodeBatch == EncodeBatchOf(EntityTypes)

\* A send on a closed channel panics, also when the channel is closed while
\* the sender is parked.
EncodeBatchPanics ==
    /\ Alive
    /\ epc = "send"
    /\ entitiesClosed
    /\ epc' = "panic"
    /\ panicked' = TRUE
    /\ UNCHANGED <<esending, encodeCalls, encCloseCalls, encCloseReturns, accepted>>
    /\ UNCHANGED <<onceVars, producerVars, laneVars, mergeVars, extractVars, encq, packq,
                   saverVars, consumerVars, writerVars, ctorVars, pureVars>>
    /\ UNCHANGED decVars

\* A doClose without the sync.Once.
doCloseEveryTime(err) ==
    /\ eerr' = err
    /\ closeOnce' = TRUE
    /\ entitiesClosed' = TRUE
    /\ entitiesCloses' = entitiesCloses + 1

\* Encoder.doClose (part_010:150-155): the first call stores its error and
\* closes Entities, later calls do nothing.
doClose(err) ==
    IF closeOnce
    THEN UNCHANGED <<eerr, closeOnce, entitiesClosed, entitiesCloses>>
    ELSE /\ eerr' = err
         /\ closeOnce' = TRUE
         /\ entitiesClosed' = TRUE
         /\ entitiesCloses' = entitiesCloses + 1

\* Encoder.Close (part_010:144-147) up to closed.Wait().
EncoderClose ==
    /\ Alive
    /\ epc = "idle"
    /\ encCloseCalls < MaxCloseCalls
    /\ doClose(EOF)
    /\ epc' = "closeWait"
    /\ encCloseCalls' = encCloseCalls + 1
    /\ UNCHANGED <<esending, encodeCalls, encCloseReturns, accepted>>
    /\ UNCHANGED <<producerVars, laneVars, mergeVars, extractVars, encq, packq,
                   saverVars, consumerVars, writerVars, panicked, ctorVars, pureVars>>
    /\ UNCHANGED decVars

\* Encoder.Close has no result (part_010:144): what a Close that has
\* returned reports to its caller.
CloseResult == Nil

\* A Close that returns without waiting for the writer.
ClosedWaitSkipped == TRUE

\* e.closed.Wait() (part_010:146) returns once writeHeaderAndBody has run
\* its deferred e.closed.Done().
ClosedWait == hpc = "done"

EncoderCloseReturn ==
    /\ Alive
    /\ epc = "closeWait"
    /\ ClosedWait
    /\ epc' = "idle"
    /\ encCloseReturns' = encCloseReturns + 1
    /\ UNCHANGED <<esending, encodeCalls, encCloseCalls, accepted>>
    /\ UNCHANGED <<onceVars, producerVars, laneVars, mergeVars, extractVars, encq, packq,
                   saverVars, consumerVars, writerVars, panicked, ctorVars, pureVars>>
    /\ UNCHANGED decVars

\* ---------------------------------------------------------------- Coalesce
\* for entities := range in (batch.go:22): the goroutine takes the slice of
\* a parked EncodeBatch, which then returns; once Entities is closed the
\* loop ends and the deferred closes of wch, rch and nch run.
CoalesceRecv ==
    /\ Alive
    /\ ppc = "recv"
    /\ \/ /\ epc = "send"
          /\ ~entitiesClosed
          /\ pcur' = esending
          /\ ppc' = IF esending = <<>> THEN "recv" ELSE "nch"
          /\ accepted' = accepted \o esending
          /\ esending' = <<>>
          /\ epc' = "idle"
       \/ /\ entitiesClosed
          /\ ppc' = "done"
          /\ UNCHANGED <<pcur, accepted, esending, epc>>
    /\ UNCHANGED <<encodeCalls, encCloseCalls, encCloseReturns>>
    /\ UNCHANGED <<onceVars, laneVars, mergeVars, extractVars, encq, packq,
                   saverVars, consumerVars, writerVars, panicked, ctorVars, pureVars>>
    /\ UNCHANGED decVars

\* The lane after l in nch <- o; rch <- o; wch <- o (batch.go:25-27).
NextLane(l) ==
    CASE l = "nch" -> "rch"
      [] l = "rch" -> "wch"
      [] l = "wch" -> "nch"

\* A filter that lets every entity into the lane.
FilterAll(l, o) == TRUE

\* The filter of batchEntities (batch.go:71-75): object.(T) succeeds when
\* the dynamic type of the entity is the lane's type.
Filter(l, o) == o.type = LaneType(l)

\* A batcher that emits one entity late.
BatchFullLate(batch) == Len(batch) = EntityLimit + 1

\* rill.Batch(nodes, size, -1) (batch.go:77) emits its batch when it holds
\* size entities; Coalesce is called with encoder.EntityLimit
\* (part_010:113).
BatchFull(batch) == Len(batch) = EntityLimit

\* batchEntities (batch.go:70-78) on lane l receiving o: an entity that
\* passes the filter joins the batch, and rill.Batch emits the batch when
\* it holds size entities.
batchEntities(l, o) ==
    IF Filter(l, o)
    THEN /\ lacc' = [lacc EXCEPT ![l] = Append(@, o)]
         /\ lpc' = [lpc EXCEPT ![l] = IF BatchFull(Append(lacc[l], o)) THEN "send" ELSE "recv"]
    ELSE UNCHANGED <<lacc, lpc>>

\* nch <- o, rch <- o, wch <- o (batch.go:25-27): each send is taken by its
\* lane when the lane is receiving.
CoalesceSend ==
    /\ Alive
    /\ ppc \in LaneNames
    /\ lpc[ppc] = "recv"
    /\ batchEntities(ppc, Head(pcur))
    /\ IF ppc = "wch"
       THEN /\ pcur' = Tail(pcur)
            /\ ppc' = IF Tail(pcur) = <<>> THEN "recv" ELSE "nch"
       ELSE /\ ppc' = NextLane(ppc)
            /\ UNCHANGED pcur
    /\ UNCHANGED <<callerVars, onceVars, mergeVars, extractVars, encq, packq,
                   saverVars, consumerVars, writerVars, panicked, ctorVars, pureVars>>
    /\ UNCHANGED decVars

\* A lane that flushes its batch on close whatever it holds.
batchEntitiesCloseFlushAlways ==
    /\ Alive
    /\ ppc = "done"
    /\ \E l \in LaneNames :
         /\ lpc[l] = "recv"
         /\ lpc' = [lpc EXCEPT ![l] = "flush"]
    /\ UNCHANGED <<lacc, callerVars, onceVars, producerVars, mergeVars, extractVars, encq, packq,
                   saverVars, consumerVars, writerVars, panicked, ctorVars, pureVars>>
    /\ UNCHANGED decVars

\* A lane sees its input closed: rill.Batch flushes a batch that is not
\* empty and closes its output.
batchEntitiesClose ==
    /\ Alive
    /\ ppc = "done"
    /\ \E l \in LaneNames :
         /\ lpc[l] = "recv"
         /\ lpc' = [lpc EXCEPT ![l] = IF lacc[l] = <<>> THEN "done" ELSE "flush"]
    /\ UNCHANGED <<lacc, callerVars, onceVars, producerVars, mergeVars, extractVars, encq, packq,
                   saverVars, consumerVars, writerVars, panicked, ctorVars, pureVars>>
    /\ UNCHANGED decVars

\* ------------------------------------------------------------------- Merge
\* rill.Merge(bn, br, bw) (batch.go:36) takes a batch from whichever lane
\* has one, and closes its output when every lane has closed.
MergeRecv ==
    /\ Alive
    /\ gpc = "recv"
    /\ \/ \E l \in LaneNames :
            /\ lpc[l] \in {"send", "flush"}
            /\ gcur' = lacc[l]
            /\ gpc' = "send"
            /\ lacc' = [lacc EXCEPT ![l] = <<>>]
            /\ lpc' = [lpc EXCEPT ![l] = IF lpc[l] = "send" THEN "recv" ELSE "done"]
       \/ /\ \A l \in LaneNames : lpc[l] = "done"
          /\ gpc' = "done"
          /\ UNCHANGED <<gcur, lacc, lpc>>
    /\ UNCHANGED <<callerVars, onceVars, producerVars, extractVars, encq, packq,
                   saverVars, consumerVars, writerVars, panicked, ctorVars, pureVars>>
    /\ UNCHANGED decVars

\* ---------------------------------------------------- ExtractBoundingBoxes
\* for entities := range in (batch.go:52), the deferred closes at its end.
ExtractBoundingBoxesRecv ==
    /\ Alive
    /\ xpc = "recv"
    /\ \/ /\ gpc = "send"
          /\ xcur' = gcur
          /\ xpc' = "ech"
          /\ gcur' = <<>>
          /\ gpc' = "recv"
       \/ /\ gpc = "done"
          /\ xpc' = "done"
          /\ UNCHANGED <<xcur, gcur, gpc>>
    /\ UNCHANGED <<callerVars, onceVars, producerVars, laneVars, encq, packq,
                   saverVars, consumerVars, writerVars, panicked, ctorVars, pureVars>>
    /\ UNCHANGED decVars

\* ech <- entities (batch.go:53), taken by rill.OrderedMap(inspected,
\* singleCPU, encoder.EncodeBatch) (part_010:115) when one of its singleCPU
\* workers is free; the worker encodes the batch.
ExtractBoundingBoxesEch ==
    /\ Alive
    /\ xpc = "ech"
    /\ Len(encq) < singleCPU
    /\ IF EncodeBatch(xcur) = Panic
       THEN panicked' = TRUE /\ UNCHANGED encq
       ELSE encq' = Append(encq, EncodeBatch(xcur)) /\ UNCHANGED panicked
    /\ xpc' = "bch"
    /\ UNCHANGED <<xcur, callerVars, onceVars, producerVars, laneVars, mergeVars, packq,
                   saverVars, consumerVars, writerVars, ctorVars, pureVars>>
    /\ UNCHANGED decVars

\* bch <- rill.Wrap(bbox, nil) (batch.go:55-63), taken by consumeBBoxes,
\* which merges it into Header.BoundingBox (part_010:162-167).
ExtractBoundingBoxesBch ==
    /\ Alive
    /\ xpc = "bch"
    /\ ~bboxesDone
    /\ bbox' = ExpandWithBoundingBox(bbox, BatchBBox(xcur))
    /\ xpc' = "recv"
    /\ xcur' = <<>>
    /\ UNCHANGED <<completed, bboxesDone, statusesDone>>
    /\ UNCHANGED <<callerVars, onceVars, producerVars, laneVars, mergeVars, encq, packq,
                   saverVars, writerVars, panicked, ctorVars, pureVars>>
    /\ UNCHANGED decVars

\* A consumer that returns without telling the WaitGroup.
completedDoneMissing == UNCHANGED completed

\* defer e.completed.Done() (part_010:158, 172)
completedDone == completed' = completed - 1

\* consumeBBoxes sees bboxes closed and returns: e.completed.Done()
\* (part_010:158-165).
consumeBBoxesReturn ==
    /\ Alive
    /\ ~bboxesDone
    /\ xpc = "done"
    /\ bboxesDone' = TRUE
    /\ completedDone
    /\ UNCHANGED <<statusesDone, bbox>>
    /\ UNCHANGED <<callerVars, onceVars, producerVars, laneVars, mergeVars, extractVars,
                   encq, packq, saverVars, writerVars, panicked, ctorVars, pureVars>>
    /\ UNCHANGED decVars

\* -------------------------------------------------------------- OrderedMap
\* rill.OrderedMap(encoded, singleCPU, packer) (part_010:116) takes the
\* oldest encoded block when a worker is free; Pack (header.go:92-120)
\* gives the packed block or one of errs.  Both OrderedMap stages emit in
\* the order of their input.
OrderedMapPack(errs) ==
    /\ Alive
    /\ encq # <<>>
    /\ Len(packq) < singleCPU
    /\ \E err \in errs :
         packq' = Append(packq, [value |-> Head(encq), err |-> err])
    /\ encq' = Tail(encq)
    /\ UNCHANGED <<callerVars, onceVars, producerVars, laneVars, mergeVars, extractVars,
                   saverVars, consumerVars, writerVars, panicked, ctorVars, pureVars>>
    /\ UNCHANGED decVars

\* -------------------------------------------------------------- SavePacked
TornFrame == [type |-> "torn", body |-> <<>>]

\* SaveBlock (primitive.go:44-72) on buf: a packing error is passed on and
\* nothing is written; otherwise the frame is written, or a write fails
\* with one of errs after none or some of the frame's bytes.
SaveBlock(buf, errs) ==
    /\ IF buf.err # Nil
       THEN /\ sstatus' = buf.err
            /\ UNCHANGED scratch
       ELSE \E err \in errs :
              /\ sstatus' = err
              /\ IF err = Nil
                 THEN scratch' = Append(scratch, DataFrame(buf.value))
                 ELSE scratch' \in {scratch, Append(scratch, TornFrame)}
    /\ firstFailure' = IF firstFailure = Nil THEN sstatus' ELSE firstFailure

\* for buf := range ch (batch.go:90-92) and the deferred close(out).
SavePackedRecv(errs) ==
    /\ Alive
    /\ spc = "recv"
    /\ \/ /\ packq # <<>>
          /\ SaveBlock(Head(packq), errs)
          /\ packq' = Tail(packq)
          /\ spc' = "send"
       \/ /\ packq = <<>> /\ encq = <<>> /\ xpc = "done"
          /\ spc' = "done"
          /\ UNCHANGED <<packq, sstatus, scratch, firstFailure>>
    /\ UNCHANGED <<callerVars, onceVars, producerVars, laneVars, mergeVars, extractVars,
                   encq, consumerVars, writerVars, panicked, ctorVars, pureVars>>
    /\ UNCHANGED decVars

\* out <- rill.Wrap(struct{}{}, ...) (batch.go:91), taken by
\* consumeStatuses, which calls doClose on an error (part_010:176-182).
consumeStatuses ==
    /\ Alive
    /\ ~statusesDone
    /\ spc = "send"
    /\ IF sstatus # Nil THEN doClose(sstatus) ELSE UNCHANGED onceVars
    /\ spc' = "recv"
    /\ sstatus' = Nil
    /\ UNCHANGED <<scratch, firstFailure, callerVars, producerVars, laneVars, mergeVars,
                   extractVars, encq, packq, consumerVars, writerVars, panicked, ctorVars, pureVars>>
    /\ UNCHANGED decVars

\* consumeStatuses sees statuses closed and returns: e.completed.Done()
\* (part_010:172-179).
consumeStatusesReturn ==
    /\ Alive
    /\ ~statusesDone
    /\ spc = "done"
    /\ statusesDone' = TRUE
    /\ completedDone
    /\ UNCHANGED <<bboxesDone, bbox>>
    /\ UNCHANGED <<callerVars, onceVars, producerVars, laneVars, mergeVars, extractVars,
                   encq, packq, saverVars, writerVars, panicked, ctorVars, pureVars>>
    /\ UNCHANGED decVars


\* ------------------------------------------------------ writeHeaderAndBody
\* e.completed.Wait() (part_010:195) returns once both consumers have
\* called Done.
CompletedWait == completed = 0

\* e.completed.Wait(), then Sync and Seek on the scratch file
\* (part_010:195-205).
writeHeaderAndBodyWait ==
    /\ Alive
    /\ hpc = "wait"
    /\ CompletedWait
    /\ hpc' = "header"
    /\ UNCHANGED <<wrtr, callerVars, onceVars, producerVars, laneVars, mergeVars, extractVars,
                   encq, packq, saverVars, consumerVars, panicked, ctorVars, pureVars>>
    /\ UNCHANGED decVars

\* encoder.SaveHeader(e.wrtr, e.Header, ...) (part_010:207): the header
\* frame holds the bounding box as it is now.
writeHeaderAndBodyHeader ==
    /\ Alive
    /\ hpc = "header"
    /\ wrtr' = Append(wrtr, HeaderFrame(bbox))
    /\ hpc' = "copy"
    /\ UNCHANGED <<callerVars, onceVars, producerVars, laneVars, mergeVars, extractVars,
                   encq, packq, saverVars, consumerVars, panicked, ctorVars, pureVars>>
    /\ UNCHANGED decVars

\* io.Copy(e.wrtr, e.cfg.wrtr) (part_010:211), a frame at a time from the
\* start of the scratch file; at its end the function returns and the
\* deferred e.closed.Done() runs.
writeHeaderAndBodyCopy ==
    /\ Alive
    /\ hpc = "copy"
    /\ IF Len(wrtr) - 1 < Len(scratch)
       THEN /\ wrtr' = Append(wrtr, scratch[Len(wrtr)])
            /\ UNCHANGED hpc
       ELSE /\ hpc' = "done"
            /\ UNCHANGED wrtr
    /\ UNCHANGED <<callerVars, onceVars, producerVars, laneVars, mergeVars, extractVars,
                   encq, packq, saverVars, consumerVars, panicked, ctorVars, pureVars>>
    /\ UNCHANGED decVars

\* ------------------------------------------------- encoder specifications
\* The state NewEncoder leaves (part_010:82-129): the pipeline is built,
\* the two consumers and the writer are started, nothing is in flight.
EncoderFields ==
    /\ esending = <<>>
    /\ encodeCalls = 0
    /\ encCloseCalls = 0
    /\ encCloseReturns = 0
    /\ accepted = <<>>
    /\ eerr = Nil
    /\ closeOnce = FALSE
    /\ entitiesClosed = FALSE
    /\ entitiesCloses = 0
    /\ ppc = "recv"
    /\ pcur = <<>>
    /\ lpc = [l \in LaneNames |-> "recv"]
    /\ lacc = [l \in LaneNames |-> <<>>]
    /\ gpc = "recv"
    /\ gcur = <<>>
    /\ xpc = "recv"
    /\ xcur = <<>>
    /\ encq = <<>>
    /\ packq = <<>>
    /\ spc = "recv"
    /\ sstatus = Nil
    /\ scratch = <<>>
    /\ firstFailure = Nil
    /\ completed = numConsumers
    /\ bboxesDone = FALSE
    /\ statusesDone = FALSE
    /\ bbox = InitialBoundingBox
    /\ hpc = "wait"
    /\ wrtr = <<>>
    /\ panicked = FALSE
    /\ call = NoCall
    /\ result = NoCall
    /\ pool = PoolInit
    /\ dbatch = NoBatch
    /\ rdr = NoReader

\* the options of encoder_options.go that bear on the store and on the
\* header's required features
ExistingDir == "/existing"
MissingDir == "/missing/store"
TmpDir == "/tmp/pbf"
WithStorePath(path) == [name |-> "WithStorePath", arg |-> path]
WithRequiredFeatures(features) == [name |-> "WithRequiredFeatures", arg |-> features]
Options ==
    {WithStorePath(ExistingDir), WithStorePath(MissingDir),
     WithRequiredFeatures(<<"OsmSchema-V0.6", "DenseNodes">>)}

\* the option lists NewEncoder is called with
OptionLists == UNION {[1..n -> Options] : n \in 0..MaxOpts}

\* defaultEncoderConfig (encoder_options.go:106-108)
defaultEncoderConfig == [store |-> "", requiredFeatures |-> <<>>]

\* for _, opt := range opts { opt(&cfg) } (part_010:85-87)
RECURSIVE ApplyOptions(_, _)
ApplyOptions(o, os) ==
    IF os = <<>> THEN o
    ELSE LET opt == Head(os)
             applied == IF opt.name = "WithStorePath"
                        THEN [o EXCEPT !.store = opt.arg]
                        ELSE [o EXCEPT !.requiredFeatures = @ \o opt.arg]
         IN  ApplyOptions(applied, Tail(os))

\* initializeTempStore (encoder_options.go:112-127): an empty store becomes
\* a directory of os.MkdirTemp; os.Create makes the scratch file in the
\* store, which fails when the directory does not exist.  Both failures
\* panic; the function has no result, so the caller sees no error.
initializeTempStore(o, mkdirOk) ==
    IF o.store = "" /\ ~mkdirOk
    THEN [panic |-> TRUE, err |-> Nil, cfg |-> o]
    ELSE LET dir == IF o.store = "" THEN TmpDir ELSE o.store
         IN  [panic |-> dir = MissingDir, err |-> Nil, cfg |-> [o EXCEPT !.store = dir]]

\* what NewEncoder has returned
NotReturned == [enc |-> "-", err |-> "-"]
Returned(enc, err) == [enc |-> enc, err |-> err]

\* NewEncoder (part_010:82-129): the options are applied to a copy of the
\* default configuration and the scratch file is made; an error of that
\* step is returned with a nil encoder; otherwise the pipeline is built, the
\* goroutines are started and the encoder is returned.
NewEncoder ==
    /\ Alive
    /\ epc = "new"
    /\ \E os \in OptionLists, mkdirOk \in BOOLEAN :
         LET r == initializeTempStore(ApplyOptions(defaultEncoderConfig, os), mkdirOk)
         IN  /\ opts' = os
             /\ cfg' = r.cfg
             /\ IF r.panic
                THEN /\ panicked' = TRUE
                     /\ epc' = "panic"
                     /\ nret' = NotReturned
                ELSE IF r.err # Nil
                THEN /\ epc' = "failed"
                     /\ nret' = Returned(Nil, r.err)
                     /\ UNCHANGED panicked
                ELSE /\ epc' = "idle"
                     /\ nret' = Returned("encoder", Nil)
                     /\ UNCHANGED panicked
    /\ UNCHANGED <<esending, encodeCalls, encCloseCalls, encCloseReturns, accepted>>
    /\ UNCHANGED <<onceVars, producerVars, laneVars, mergeVars, extractVars, encq, packq,
                   saverVars, consumerVars, writerVars, pureVars>>
    /\ UNCHANGED decVars

\* The state a NewEncoder without options leaves when the scratch file could
\* be made.
EncoderInit ==
    /\ epc = "idle"
    /\ opts = <<>>
    /\ cfg = [defaultEncoderConfig EXCEPT !.store = TmpDir]
    /\ nret = Returned("encoder", Nil)
    /\ EncoderFields

\* ----------------------------------------------------------- specification
\* The state NewDecoder leaves (decoder.go:133-177): the header frame is
\* consumed, every goroutine is started, nothing is in flight.
DecoderInit ==
    /\ nCPU \in 1..MaxCpu
    /\ inputChannelLength \in 0..MaxChanLen
    /\ outputChannelLength \in 0..MaxChanLen
    /\ decodedChannelLength \in 0..MaxChanLen
    /\ ctxDone = FALSE
    /\ file = <<>>
    /\ tail = ""
    /\ rpc = "run"
    /\ ri = 0
    /\ inputs = [i \in 0..(nCPU - 1) |-> <<>>]
    /\ inputsClosed = FALSE
    /\ wpc = [i \in 0..(nCPU - 1) |-> "recv"]
    /\ wval = [i \in 0..(nCPU - 1) |-> [blob |-> 0, elements |-> <<>>, err |-> Nil]]
    /\ outputs = [i \in 0..(nCPU - 1) |-> <<>>]
    /\ outputsClosed = [i \in 0..(nCPU - 1) |-> FALSE]
    /\ mpc = "recv"
    /\ mi = 0
    /\ mq = <<>>
    /\ pairs = <<>>
    /\ pairsClosed = FALSE
    /\ cpc = "idle"
    /\ returned = <<>>
    /\ closeCalls = 0
    /\ closedAtMark = FALSE

\* A decoder and an encoder have been constructed.
Init == DecoderInit /\ EncoderInit

Workers == \E i \in Lanes : decode(i)

Next ==
    \/ read
    \/ Workers
    \/ coalesce
    \/ DecodeCall
    \/ DecodeReturn
    \/ Close

Spec == Init /\ [][Next]_vars


\* A well-formed stream, and no Close.
NextWellFormed ==
    \/ readWellFormed
    \/ Workers
    \/ coalesce
    \/ DecodeCall
    \/ DecodeReturn

\* A well-formed stream, with Close.
NextClose ==
    \/ readWellFormed
    \/ Workers
    \/ coalesce
    \/ DecodeCall
    \/ DecodeReturn
    \/ Close

\* The Go scheduler runs every goroutine that can take a step.
PipelineFair ==
    /\ WF_vars(readWellFormed)
    /\ \A i \in 0..(MaxCpu - 1) : WF_vars(i \in Lanes /\ decode(i))
    /\ WF_vars(coalesce)

\* The consumer keeps calling Decode.
ConsumerFair == WF_vars(DecodeCall) /\ WF_vars(DecodeReturn)

\* A well-formed stream read to its end by a consumer that keeps calling.
WellFormedSpec ==
    Init /\ [][NextWellFormed]_vars /\ PipelineFair /\ ConsumerFair

\* Close on a well-formed stream; the consumer may stop calling Decode.
CloseSpec == Init /\ [][NextClose]_vars /\ PipelineFair

\* Close on a well-formed stream; the consumer keeps calling Decode.
CloseLiveSpec ==
    Init /\ [][NextClose]_vars /\ PipelineFair /\ ConsumerFair


\* The encoder is used and the decoder is not: one decoder configuration.
EncInit ==
    /\ DecoderInit
    /\ nCPU = 1
    /\ inputChannelLength = 0
    /\ outputChannelLength = 0
    /\ decodedChannelLength = 0
    /\ EncoderInit

\* The steps of the encoder that cannot fail.
EncSteps ==
    \/ EncoderEncodeBatch
    \/ EncodeBatchPanics
    \/ EncoderClose
    \/ EncoderCloseReturn
    \/ CoalesceRecv
    \/ CoalesceSend
    \/ batchEntitiesClose
    \/ MergeRecv
    \/ ExtractBoundingBoxesRecv
    \/ ExtractBoundingBoxesEch
    \/ ExtractBoundingBoxesBch
    \/ consumeBBoxesReturn
    \/ consumeStatuses
    \/ consumeStatusesReturn
    \/ writeHeaderAndBodyWait
    \/ writeHeaderAndBodyHeader
    \/ writeHeaderAndBodyCopy

\* No stage fails.
EncNext ==
    \/ EncSteps
    \/ OrderedMapPack({Nil})
    \/ SavePackedRecv({Nil})

EncSpec == EncInit /\ [][EncNext]_vars

\* Packing a block or writing it to the scratch file may fail.
EncFailNext ==
    \/ EncodeBatchOf(LiveTypes)
    \/ EncodeBatchPanics
    \/ EncoderClose
    \/ EncoderCloseReturn
    \/ CoalesceRecv
    \/ CoalesceSend
    \/ batchEntitiesClose
    \/ MergeRecv
    \/ ExtractBoundingBoxesRecv
    \/ ExtractBoundingBoxesEch
    \/ ExtractBoundingBoxesBch
    \/ consumeBBoxesReturn
    \/ consumeStatuses
    \/ consumeStatusesReturn
    \/ writeHeaderAndBodyWait
    \/ writeHeaderAndBodyHeader
    \/ writeHeaderAndBodyCopy
    \/ OrderedMapPack({Nil, ErrPack})
    \/ SavePackedRecv({Nil, ErrWrite})

EncFailSpec == EncInit /\ [][EncFailNext]_vars


\* The Go scheduler runs some goroutine of the encoder that can take a step,
\* and a Close whose wait is over returns; the caller is free to stop calling.
EncPipelineSteps ==
    \/ EncoderCloseReturn
    \/ CoalesceRecv
    \/ CoalesceSend
    \/ batchEntitiesClose
    \/ MergeRecv
    \/ ExtractBoundingBoxesRecv
    \/ ExtractBoundingBoxesEch
    \/ ExtractBoundingBoxesBch
    \/ consumeBBoxesReturn
    \/ consumeStatuses
    \/ consumeStatusesReturn
    \/ writeHeaderAndBodyWait
    \/ writeHeaderAndBodyHeader
    \/ writeHeaderAndBodyCopy
    \/ OrderedMapPack({Nil})
    \/ SavePackedRecv({Nil})

EncLiveNext ==
    \/ EncodeBatchOf(LiveTypes)
    \/ EncodeBatchPanics
    \/ EncoderClose
    \/ EncPipelineSteps

EncLiveSpec == EncInit /\ [][EncLiveNext]_vars /\ WF_vars(EncPipelineSteps)

\* NewEncoder is still to be called.
NewInit ==
    /\ DecoderInit
    /\ nCPU = 1
    /\ inputChannelLength = 0
    /\ outputChannelLength = 0
    /\ decodedChannelLength = 0
    /\ epc = "new"
    /\ opts = <<>>
    /\ cfg = defaultEncoderConfig
    /\ nret = NotReturned
    /\ EncoderFields

\* The encoder from its construction on; the caller pushes nodes and ways by
\* pointer.
NewNext ==
    \/ NewEncoder
    \/ EncodeBatchOf({"*Node", "*Way"})
    \/ EncodeBatchPanics
    \/ EncoderClose
    \/ EncPipelineSteps

NewSpec == NewInit /\ [][NewNext]_vars


\* ============================================== functions applied on their own
\* Everything but the call in hand: no pipeline moves while a function of
\* the codec is applied on its own.
codecVars ==
    <<decVars, callerVars, onceVars, producerVars, laneVars, mergeVars, extractVars,
      encq, packq, saverVars, consumerVars, writerVars, panicked, ctorVars, bufVars>>

\* the call of fn on args
Call(fn, args) == [fn |-> fn, args |-> args]

\* ------------------------------------------------------------- first frame
\* The first frame of a stream, whole: its BlobHeader.type, the number of
\* entities of its block when it is a data block, whether its payload
\* unpacks and parses as what the type says, and whether the payload's
\* bytes unmarshal as a HeaderBlock (proto.Unmarshal leaves fields it does
\* not know aside, so the bytes of another message may well do).
BlobTypes == {"OSMHeader", "OSMData", "Other"}
FirstFrames ==
    {f \in [type : BlobTypes, n : 0..MaxEnts, parses : BOOLEAN, asHeader : BOOLEAN] :
        /\ f.type = "OSMHeader" => (f.asHeader = f.parses /\ f.n = 0)
        /\ f.type = "Other" => f.n = 0}

ErrUnknownHeaderType == "unknown header type"

\* elements (decoder.go:316-368) on a whole frame: the payload is unpacked
\* and parsed by the BlobHeader's type.
elementsOfFrame(f) ==
    IF f.type = "Other" THEN [e |-> <<>>, err |-> ErrUnknownHeaderType]
    ELSE IF ~f.parses THEN [e |-> <<>>, err |-> ErrDecode]
    ELSE IF f.type = "OSMHeader" THEN [e |-> <<"*Header">>, err |-> Nil]
    ELSE [e |-> [j \in 1..f.n |-> "*Node"], err |-> Nil]

\* what a constructor gives: its value, its error, or a panic
Gives(value, err) == [value |-> value, err |-> err, panic |-> FALSE]
Panics == [value |-> "-", err |-> "-", panic |-> TRUE]

\* NewDecoder (decoder.go:133-177) on a stream whose first frame is f: an
\* error of elements is returned; e[0].(*Header) panics when e is empty
\* (index out of range) and when e[0] is not a *Header (the one-result type
\* assertion); otherwise the decoder is returned.
NewDecoder(f) ==
    LET r == elementsOfFrame(f)
    IN  IF r.err # Nil THEN Gives(Nil, r.err)
        ELSE IF r.e = <<>> THEN Panics
        ELSE IF r.e[1] # "*Header" THEN Panics
        ELSE Gives("decoder", Nil)

\* LoadHeader (internal/decoder/header.go:29-71) on a stream whose first
\* frame is f: readBlob, unpack, proto.Unmarshal into a HeaderBlock; the
\* BlobHeader's type is not looked at.
LoadHeader(f) ==
    IF f.asHeader THEN Gives("header", Nil) ELSE Gives(Nil, ErrDecode)

NewDecoderCall ==
    /\ call = NoCall
    /\ \E f \in FirstFrames :
         /\ call' = Call("NewDecoder", f)
         /\ result' = NewDecoder(f)
    /\ UNCHANGED codecVars

LoadHeaderCall ==
    /\ call = NoCall
    /\ \E f \in FirstFrames :
         /\ call' = Call("LoadHeader", f)
         /\ result' = LoadHeader(f)
    /\ UNCHANGED codecVars


\* ---------------------------------------------------------------- readBlob
\* the datasize a BlobHeader announces, around the 64 MiB the format allows
\* for a Blob
MaxDataSize == 64 * 1024 * 1024
DataSizes == {1, MaxDataSize, MaxDataSize + 1}

\* readBlobData (internal/decoder/blob.go:109-124), called by readBlob with
\* the BlobHeader's datasize (blob.go:71), on a stream that holds avail more
\* bytes: io.CopyN reads size bytes, or what is left and gives io.EOF; the
\* bytes are then unmarshalled.  blobReader.readBlob
\* (decoder_reader.go:62-78) does the same.
readBlobData(size, avail, parses) ==
    IF avail < size THEN [read |-> avail, blob |-> Nil, err |-> EOF]
    ELSE IF ~parses THEN [read |-> size, blob |-> Nil, err |-> "proto error"]
    ELSE [read |-> size, blob |-> "blob", err |-> Nil]

readBlobDataCall ==
    /\ call = NoCall
    /\ \E size \in DataSizes, avail \in {0} \cup DataSizes, parses \in BOOLEAN :
         /\ call' = Call("readBlobData", [size |-> size, avail |-> avail, parses |-> parses])
         /\ result' = readBlobData(size, avail, parses)
    /\ UNCHANGED codecVars

\* ------------------------------------------------------------------ unpack
\* A Blob: which payload field is set (or none), the length of the payload
\* once uncompressed, raw_size, and whether the compressed bytes are sound.
Compressed == {"zlib", "lzma", "lz4", "zstd"}
Variants == {"raw"} \cup Compressed
Blobs == [data : Variants \cup {Nil}, len : 0..MaxPayload, raw_size : 0..MaxPayload,
          sound : BOOLEAN]

ErrUnknownCompressionType == "unknown blob compression type"
ErrUnpack == "unpacker error"
ErrRawSize == "raw blob data size"

\* unpack (unnamed/part_011:38-81): raw data is returned as it is; the other
\* variants are read through their decompressor, and the number of bytes
\* read is compared with raw_size.
unpack(blob) ==
    IF blob.data = "raw" THEN [payload |-> blob.len, err |-> Nil]
    ELSE IF blob.data = Nil THEN [payload |-> Nil, err |-> ErrUnknownCompressionType]
    ELSE IF ~blob.sound THEN [payload |-> Nil, err |-> ErrUnpack]
    ELSE IF blob.len # blob.raw_size THEN [payload |-> Nil, err |-> ErrRawSize]
    ELSE [payload |-> blob.len, err |-> Nil]

unpackCall ==
    /\ call = NoCall
    /\ \E blob \in Blobs :
         /\ call' = Call("unpack", blob)
         /\ result' = unpack(blob)
    /\ UNCHANGED codecVars

\* ------------------------------------------------------------ BoundingBox
\* Coordinates the boxes are expanded with: the limits and a value between
\* them.
LatValues == {MinLat, 0, MaxLat}
LonValues == {MinLon, 0, MaxLon}

\* Any BoundingBox value, the box of InitialBoundingBox among them:
\* ExtractBoundingBoxes sends that one for a batch without nodes
\* (batch.go:52-64).
Boxes == [top : LatValues, left : LonValues, bottom : LatValues, right : LonValues]

\* BoundingBox.Contains (model/bbox.go:41-43)
Contains(b, lat, lng) == b.left <= lng /\ lng <= b.right /\ b.bottom <= lat /\ lat <= b.top

\* everything but the box and the call in hand
boxFrame ==
    <<decVars, callerVars, onceVars, producerVars, laneVars, mergeVars, extractVars,
      encq, packq, saverVars, completed, bboxesDone, statusesDone, writerVars, panicked,
      ctorVars, result, bufVars>>

\* b.ExpandWithLatLng(lat, lng) on the box in hand
ExpandWithLatLngCall ==
    /\ \E lat \in LatValues, lng \in LonValues :
         /\ call' = Call("ExpandWithLatLng", [lat |-> lat, lng |-> lng])
         /\ bbox' = ExpandWithLatLng(bbox, lat, lng)
    /\ UNCHANGED boxFrame

\* b.ExpandWithBoundingBox(o) on the box in hand
ExpandWithBoundingBoxCall ==
    /\ \E o \in Boxes :
         /\ call' = Call("ExpandWithBoundingBox", o)
         /\ bbox' = ExpandWithBoundingBox(bbox, o)
    /\ UNCHANGED boxFrame

\* A box made by InitialBoundingBox and expanded any number of times.
BBoxNext ==
    \/ ExpandWithLatLngCall
    \/ ExpandWithBoundingBoxCall

BBoxSpec == EncInit /\ [][BBoxNext]_vars

\* ------------------------------------------------------------ integer widths
\* int32 is given Int32Bits bits and int64 twice as many; a conversion or a
\* sum wraps around as two's complement does.
Int32Bits == 4
Int64Bits == 2 * Int32Bits

RECURSIVE Pow2(_)
Pow2(n) == IF n = 0 THEN 1 ELSE 2 * Pow2(n - 1)

Wrap(x, w) == ((x + Pow2(w - 1)) % Pow2(w)) - Pow2(w - 1)
int32(x) == Wrap(x, Int32Bits)
int64(x) == Wrap(x, Int64Bits)
MaxInt32 == Pow2(Int32Bits - 1) - 1
MinInt64 == 0 - Pow2(Int64Bits - 1)
MaxInt64 == Pow2(Int64Bits - 1) - 1

\* Go's integer division, which truncates toward zero
Quot(a, b) == IF a >= 0 THEN a \div b ELSE 0 - ((0 - a) \div b)

\* --------------------------------------------------------------- dense nodes
MaxIds == 2

\* a Go slice: nil, or its elements
NilSlice == [isnil |-> TRUE, elems |-> <<>>]
Slice(s) == [isnil |-> FALSE, elems |-> s]

\* The block's string table (primitive.go:55-63), and its date_granularity:
\* the one the encoder writes (internal/encoder/primitive.go:33, 120).
BlockStrings == <<"", "user">>
DateGranularityMs == 1000

\* The sum of the first i elements of s as the decoder accumulates it:
\* x += s[i], in a variable of w bits.
RECURSIVE RunningSum(_, _, _)
RunningSum(s, i, w) == IF i = 0 THEN 0 ELSE Wrap(RunningSum(s, i - 1, w) + s[i], w)

\* toTimestamp (internal/decoder/primitive.go:312-314): milliseconds since
\* the epoch
toTimestamp(granularity, timestamp) == timestamp * granularity

\* A nil *pb.DenseInfo, whose getters give nil slices.
NoDenseInfo == [present |-> FALSE]
Column(di, f) == IF di.present THEN di[f] ELSE <<>>

\* newDenseInfoContext (internal/decoder/primitive.go:195-219)
newDenseInfoContext(di) ==
    [versions     |-> Column(di, "version"),
     uids         |-> Column(di, "uid"),
     timestamps   |-> Column(di, "timestamp"),
     changesets   |-> Column(di, "changeset"),
     userSids     |-> Column(di, "user_sid"),
     visibilities |-> LET visibilities == IF di.present THEN di.visible ELSE NilSlice
                      IN  IF ~visibilities.isnil /\ Len(visibilities.elems) = 0
                            THEN NilSlice
                            ELSE visibilities]

\* denseInfoContext.decodeInfo (primitive.go:238-260) indexes every column
\* with i, and the string table with the running user_sid: out of range, it
\* panics.  (Go counts i from 0, the model from 1.)
decodeInfoPanics(dic, i) ==
    \/ i > Len(dic.versions)
    \/ i > Len(dic.uids)
    \/ i > Len(dic.timestamps)
    \/ i > Len(dic.changesets)
    \/ i > Len(dic.userSids)
    \/ RunningSum(dic.userSids, i, Int32Bits) \notin 0 .. (Len(BlockStrings) - 1)
    \/ (~dic.visibilities.isnil /\ i > Len(dic.visibilities.elems))

\* the Info of the i-th node, the running sums being those of the i calls made
\* so far
denseDecodeInfo(dic, i) ==
    [Version   |-> RunningSum(dic.versions, i, Int32Bits),
     UID       |-> RunningSum(dic.uids, i, Int32Bits),
     Timestamp |-> toTimestamp(DateGranularityMs, int32(RunningSum(dic.timestamps, i, Int64Bits))),
     Changeset |-> RunningSum(dic.changesets, i, Int64Bits),
     User      |-> BlockStrings[RunningSum(dic.userSids, i, Int32Bits) + 1],
     Visible   |-> IF dic.visibilities.isnil THEN TRUE ELSE dic.visibilities.elems[i]]

\* decodeDenseNodes (internal/decoder/primitive.go:80-105): one node per id,
\* lats, lons and the columns of the DenseInfo indexed by the id's position.
decodeDenseNodes(nodes) ==
    LET ids == nodes.id
        dic == newDenseInfoContext(nodes.denseinfo)
    IN  IF \E i \in 1 .. Len(ids) :
               i > Len(nodes.lat) \/ i > Len(nodes.lon) \/ decodeInfoPanics(dic, i)
          THEN Panics
          ELSE Gives([i \in 1 .. Len(ids) |->
                        [ID   |-> RunningSum(ids, i, Int64Bits),
                         Info |-> denseDecodeInfo(dic, i),
                         Lat  |-> RunningSum(nodes.lat, i, Int64Bits),
                         Lon  |-> RunningSum(nodes.lon, i, Int64Bits)]], Nil)

\* The groups decoded: n ids with as many lats and lons and no DenseInfo, or
\* a DenseInfo of n entries a column, whose timestamps sum up to more than an
\* int32 holds and whose visible is nil or has up to MaxIds + 1 flags.
SeqsOf(S, n) == [1 .. n -> S]
Zeros(n) == [i \in 1 .. n |-> 0]
Ones(n) == [i \in 1 .. n |-> 1]
TimestampDeltas == {0, 1, MaxInt32}
Visibles == {NilSlice} \cup {Slice(v) : v \in UNION {SeqsOf(BOOLEAN, k) : k \in 0 .. MaxIds + 1}}
DenseInfos(n) ==
    {NoDenseInfo} \cup
    {[present |-> TRUE, version |-> Ones(n), uid |-> Zeros(n), timestamp |-> t,
      changeset |-> Ones(n), user_sid |-> Zeros(n), visible |-> v] :
        t \in SeqsOf(TimestampDeltas, n), v \in Visibles}
DenseGroups ==
    UNION {{[id |-> Ones(n), lat |-> Ones(n), lon |-> Zeros(n), denseinfo |-> di] :
               di \in DenseInfos(n)} : n \in 0 .. MaxIds}

decodeDenseNodesCall ==
    /\ call = NoCall
    /\ \E nodes \in DenseGroups :
         /\ call' = Call("decodeDenseNodes", nodes)
         /\ result' = decodeDenseNodes(nodes)
    /\ UNCHANGED codecVars

\* --------------------------------------------------------------------- Info
\* toInfoPb (internal/encoder/primitive.go:296-307); the user's string index
\* is that of the block's table.
IndexOf(user) == (CHOOSE i \in 1 .. Len(BlockStrings) : BlockStrings[i] = user) - 1
toInfoPb(info) ==
    [Version   |-> info.Version,
     Timestamp |-> int32(Quot(info.Timestamp, DateGranularityMs)),
     Changeset |-> info.Changeset,
     Uid       |-> int32(info.UID),
     UserSid   |-> IndexOf(info.User),
     Visible   |-> info.Visible]

\* blockContext.decodeInfo (internal/decoder/primitive.go:177-192) of an Info
\* that is there
decodeInfo(info) ==
    [Version   |-> info.Version,
     Timestamp |-> toTimestamp(DateGranularityMs, info.Timestamp),
     Changeset |-> info.Changeset,
     UID       |-> info.Uid,
     User      |-> BlockStrings[info.UserSid + 1],
     Visible   |-> info.Visible]

\* Instants at whole seconds and between them, up to past the last second an
\* int32 holds.
Instants == {s * DateGranularityMs : s \in 0 .. MaxInt32 + 2} \cup {1, DateGranularityMs + 1}
Infos ==
    [Version : {1}, UID : {0, 1}, Timestamp : Instants, Changeset : {1}, User : {"", "user"},
     Visible : BOOLEAN]

toInfoPbCall ==
    /\ call = NoCall
    /\ \E info \in Infos :
         /\ call' = Call("toInfoPb", info)
         /\ result' = toInfoPb(info)
    /\ UNCHANGED codecVars

\* ------------------------------------------------------------------- deltas
MaxVec == 3

\* A calcDeltas that takes every value as its own delta.
calcDeltasFromZero(values) == [i \in 1 .. Len(values) |-> int64(values[i] - 0)]

\* calcDeltas (internal/encoder/primitive.go:264-277) on int64 values:
\* deltas[i] = id - prev, prev being the value before, 0 for the first.
calcDeltas(values) ==
    [i \in 1 .. Len(values) |-> int64(values[i] - (IF i = 1 THEN 0 ELSE values[i - 1]))]

\* The running sum from zero of decodeWays (internal/decoder/primitive.go:
\* 114-119): nodeID = delta + nodeID; decodeDenseNodes (primitive.go:89-93)
\* and decodeMembers (primitive.go:153-156) sum likewise.
decodeDeltas(refs) == [j \in 1 .. Len(refs) |-> RunningSum(refs, j, Int64Bits)]

\* int64 values: the ends of the range and the values around zero
Int64Values == {MinInt64, 0 - 1, 0, 1, MaxInt64}
Vectors == UNION {SeqsOf(Int64Values, n) : n \in 0 .. MaxVec}

calcDeltasCall ==
    /\ call = NoCall
    /\ \E values \in Vectors :
         /\ call' = Call("calcDeltas", values)
         /\ result' = calcDeltas(values)
    /\ UNCHANGED codecVars

\* ------------------------------------------------------------- string table
\* Strings are drawn from an alphabet of MaxWord + 1 words in lexicographic
\* order: word 0 is the empty string, notUsed (table.go:5-7).
MaxWord == 2
notUsed == 0
Words == 0 .. MaxWord

\* sort.Strings: the same strings, as many times each, in ascending order
Occurrences(seq, w) == Cardinality({i \in DOMAIN seq : seq[i] = w})
SortStrings(seq) ==
    CHOOSE t \in [1 .. Len(seq) -> {seq[i] : i \in DOMAIN seq}] :
        /\ \A i \in 1 .. Len(seq) - 1 : t[i] <= t[i + 1]
        /\ \A w \in {seq[i] : i \in DOMAIN seq} : Occurrences(t, w) = Occurrences(seq, w)

\* the keys of a map in the order the range statement gives them: any order,
\* the sort that follows leaves one result
RECURSIVE KeysOf(_)
KeysOf(S) == IF S = {} THEN <<>> ELSE LET k == CHOOSE k \in S : TRUE IN <<k>> \o KeysOf(S \ {k})

\* A CalcTable whose tbl[k] is the first position that holds k.
CalcTableFirstPosition(s) ==
    LET strings == SortStrings(<<notUsed>> \o KeysOf(s))
    IN  [strings |-> strings,
         tbl     |-> [k \in {strings[i] : i \in DOMAIN strings} |->
                         (CHOOSE i \in DOMAIN strings :
                             strings[i] = k /\ \A j \in DOMAIN strings : strings[j] = k => i <= j) - 1]]

\* Strings.CalcTable (internal/encoder/table.go:37-62) of the set s of the
\* strings Added: notUsed and every string of s, sorted; tbl[k] is the last
\* position that holds k, the loop going up (table.go:52-55).  Go counts
\* positions from 0.
CalcTable(s) ==
    LET strings == SortStrings(<<notUsed>> \o KeysOf(s))
    IN  [strings |-> strings,
         tbl     |-> [k \in {strings[i] : i \in DOMAIN strings} |->
                         (CHOOSE i \in DOMAIN strings :
                             strings[i] = k /\ \A j \in DOMAIN strings : strings[j] = k => j <= i) - 1]]

\* Table.IndexOf (table.go:64-74) panics for a string that is not in the
\* table: NoIndex stands for that.
NoIndex == 0 - 1
TableIndexOf(t, value) == IF value \in DOMAIN t.tbl THEN t.tbl[value] ELSE NoIndex

\* Table.AsArray (table.go:76-82)
AsArray(t) == t.strings

\* A calcTagIDs that pairs every key with the index of the key itself.
calcTagIDsKeyForValue(tags, table) ==
    LET keys == SortStrings(KeysOf(DOMAIN tags))
    IN  [keyIDs |-> [i \in DOMAIN keys |-> TableIndexOf(table, keys[i])],
         valIDs |-> [i \in DOMAIN keys |-> TableIndexOf(table, keys[i])]]

\* calcTagIDs (internal/encoder/primitive.go:279-294)
calcTagIDs(tags, table) ==
    LET keys == SortStrings(KeysOf(DOMAIN tags))
    IN  [keyIDs |-> [i \in DOMAIN keys |-> TableIndexOf(table, keys[i])],
         valIDs |-> [i \in DOMAIN keys |-> TableIndexOf(table, tags[keys[i]])]]

\* tag maps: any keys, any values
TagMaps == UNION {[K -> Words] : K \in SUBSET Words}
StringsOf(tags) == DOMAIN tags \cup {tags[k] : k \in DOMAIN tags}

CalcTableCall ==
    /\ call = NoCall
    /\ \E s \in SUBSET Words :
         /\ call' = Call("CalcTable", s)
         /\ result' = CalcTable(s)
    /\ UNCHANGED codecVars

\* calcTagIDs with the table of the strings of the tags and of others
calcTagIDsCall ==
    /\ call = NoCall
    /\ \E tags \in TagMaps, others \in {{}, Words} :
         /\ call' = Call("calcTagIDs", [tags |-> tags, added |-> StringsOf(tags) \cup others])
         /\ result' = calcTagIDs(tags, CalcTable(StringsOf(tags) \cup others))
    /\ UNCHANGED codecVars

\* ----------------------------------------------------------- primitive block
\* The entities of a block: up to MaxBlockEnts of one type, their strings
\* drawn from the first MaxBlockWord + 1 words.  Every entity has its Info.
MaxBlockEnts == 2
MaxBlockWord == 1
BlockWords == 0 .. MaxBlockWord
BlockTagMaps == UNION {[K -> BlockWords] : K \in SUBSET BlockWords}
Nodes == [type : {"*Node"}, Tags : BlockTagMaps, User : BlockWords]
Ways == [type : {"*Way"}, Tags : BlockTagMaps, User : BlockWords]
Relations ==
    [type : {"*Relation"}, Tags : BlockTagMaps, User : BlockWords,
     Roles : UNION {SeqsOf(BlockWords, n) : n \in 0 .. 1}]
BlockOf(S) == UNION {SeqsOf(S, n) : n \in 0 .. MaxBlockEnts}

\* newBlockContext (internal/encoder/primitive.go:80-97): the strings of the
\* tags and the user of every entity (extractTagsAndInfo, primitive.go:
\* 253-262) and the roles of a relation's members (extractMemberRoles,
\* primitive.go:247-251) are Added, and the table is calculated.
StringsOfEntity(e) ==
    StringsOf(e.Tags) \cup {e.User}
        \cup (IF e.type = "*Relation" THEN {e.Roles[i] : i \in DOMAIN e.Roles} ELSE {})
newBlockContext(entities) ==
    [table    |-> CalcTable(UNION {StringsOfEntity(entities[i]) : i \in DOMAIN entities}),
     entities |-> entities]

\* the key and value indices of a node, pair by pair, and the 0 that ends
\* them (primitive.go:161-167)
RECURSIVE Interleave(_, _)
Interleave(ks, vs) ==
    IF ks = <<>> THEN <<>> ELSE <<ks[1], vs[1]>> \o Interleave(Tail(ks), Tail(vs))
RECURSIVE Flatten(_)
Flatten(seqs) == IF seqs = <<>> THEN <<>> ELSE seqs[1] \o Flatten(Tail(seqs))

\* An extractDenseNodes that writes no terminator after a node without tags.
extractDenseNodesBareTerminator(bc) ==
    [KeysVals |-> Flatten([i \in DOMAIN bc.entities |->
                     LET ids == calcTagIDs(bc.entities[i].Tags, bc.table)
                     IN  IF ids.keyIDs = <<>> THEN <<>>
                         ELSE Interleave(ids.keyIDs, ids.valIDs) \o <<0>>]),
     UserSid  |-> calcDeltas([i \in DOMAIN bc.entities |->
                                 TableIndexOf(bc.table, bc.entities[i].User)]),
     S        |-> AsArray(bc.table)]

\* extractDenseNodes (primitive.go:126-184): keys_vals and the user_sid column
\* of the DenseInfo, and the block's string table (primitive.go:112-115).
extractDenseNodes(bc) ==
    [KeysVals |-> Flatten([i \in DOMAIN bc.entities |->
                     LET ids == calcTagIDs(bc.entities[i].Tags, bc.table)
                     IN  Interleave(ids.keyIDs, ids.valIDs) \o <<0>>]),
     UserSid  |-> calcDeltas([i \in DOMAIN bc.entities |->
                                 TableIndexOf(bc.table, bc.entities[i].User)]),
     S        |-> AsArray(bc.table)]

\* extractWays (primitive.go:186-213): keys, vals and the Info's user_sid
\* (toInfoPb, primitive.go:296-307) of every way
extractWays(bc) ==
    [Ways |-> [i \in DOMAIN bc.entities |->
                  LET ids == calcTagIDs(bc.entities[i].Tags, bc.table)
                  IN  [Keys |-> ids.keyIDs, Vals |-> ids.valIDs,
                       UserSid |-> TableIndexOf(bc.table, bc.entities[i].User)]],
     S    |-> AsArray(bc.table)]

\* extractRelations (primitive.go:215-245): as a way, and roles_sid
extractRelations(bc) ==
    [Relations |-> [i \in DOMAIN bc.entities |->
                      LET ids == calcTagIDs(bc.entities[i].Tags, bc.table)
                      IN  [Keys |-> ids.keyIDs, Vals |-> ids.valIDs,
                           UserSid |-> TableIndexOf(bc.table, bc.entities[i].User),
                           RolesSid |-> [j \in DOMAIN bc.entities[i].Roles |->
                                            TableIndexOf(bc.table, bc.entities[i].Roles[j])]]],
     S         |-> AsArray(bc.table)]

\* ---------------------------------------------------------------- dense tags
\* newTagsContext (internal/decoder/primitive.go:268-276)
newTagsContext(strings, keyVals) ==
    [strings |-> strings, i |-> 0,
     keyVals |-> IF Len(keyVals) # 0 THEN Slice(keyVals) ELSE NilSlice]

\* The loop of decodeTags (primitive.go:286-289) from cursor i: the cursors
\* of the keys it reads and the cursor it stops at; reading keyVals or
\* strings out of range panics.  Go counts from 0.
RECURSIVE ScanTags(_, _, _)
ScanTags(strings, kv, i) ==
    IF i >= Len(kv) THEN [panic |-> TRUE, keys |-> <<>>, end |-> i]
    ELSE IF kv[i + 1] <= 0 THEN [panic |-> FALSE, keys |-> <<>>, end |-> i]
    ELSE IF \/ i + 1 >= Len(kv)
            \/ kv[i + 1] >= Len(strings)
            \/ kv[i + 2] \notin 0 .. Len(strings) - 1
         THEN [panic |-> TRUE, keys |-> <<>>, end |-> i]
    ELSE LET r == ScanTags(strings, kv, i + 2)
         IN  [panic |-> r.panic, keys |-> <<i>> \o r.keys, end |-> r.end]

\* tagsContext.decodeTags (primitive.go:278-294): the map and the context
\* after the call; a later pair with the same key replaces an earlier one.
decodeTags(tic) ==
    IF tic.keyVals.isnil
      THEN [panic |-> FALSE, tags |-> <<>>, tic |-> tic]
      ELSE LET kv == tic.keyVals.elems
               r == ScanTags(tic.strings, kv, tic.i)
               at == {r.keys[n] : n \in DOMAIN r.keys}
           IN  IF r.panic
                 THEN [panic |-> TRUE, tags |-> <<>>, tic |-> tic]
                 ELSE [panic |-> FALSE,
                       tags  |-> [k \in {tic.strings[kv[p + 1] + 1] : p \in at} |->
                                    LET p == CHOOSE p \in at :
                                               /\ tic.strings[kv[p + 1] + 1] = k
                                               /\ \A q \in at : tic.strings[kv[q + 1] + 1] = k => q <= p
                                    IN  tic.strings[kv[p + 2] + 1]],
                       tic   |-> [tic EXCEPT !.i = r.end + 1]]

\* decodeTags called once per node by decodeDenseNodes (primitive.go:84, 96):
\* the maps of the first n nodes and the context after them
RECURSIVE decodeDenseTags(_, _)
decodeDenseTags(tic, n) ==
    IF n = 0 THEN [panic |-> FALSE, tags |-> <<>>, tic |-> tic]
    ELSE LET before == decodeDenseTags(tic, n - 1)
             this == IF before.panic THEN before ELSE decodeTags(before.tic)
         IN  IF this.panic THEN [panic |-> TRUE, tags |-> <<>>, tic |-> tic]
             ELSE [panic |-> FALSE, tags |-> Append(before.tags, this.tags), tic |-> this.tic]

\* ------------------------------------------------------ the blocks' actions
extractDenseNodesCall ==
    /\ call = NoCall
    /\ \E entities \in BlockOf(Nodes) :
         /\ call' = Call("extractDenseNodes", entities)
         /\ result' = extractDenseNodes(newBlockContext(entities))
    /\ UNCHANGED codecVars

extractWaysCall ==
    /\ call = NoCall
    /\ \E entities \in BlockOf(Ways) :
         /\ call' = Call("extractWays", entities)
         /\ result' = extractWays(newBlockContext(entities))
    /\ UNCHANGED codecVars

extractRelationsCall ==
    /\ call = NoCall
    /\ \E entities \in BlockOf(Relations) :
         /\ call' = Call("extractRelations", entities)
         /\ result' = extractRelations(newBlockContext(entities))
    /\ UNCHANGED codecVars

\* decodeDenseNodes of a group of n ids without keys_vals
decodeTagsCall ==
    /\ call = NoCall
    /\ \E n \in 0 .. MaxBlockEnts, strings \in {<<notUsed>>, <<notUsed, 1>>} :
         /\ call' = Call("decodeTags", [strings |-> strings, keyVals |-> <<>>, n |-> n])
         /\ result' = decodeDenseTags(newTagsContext(strings, <<>>), n)
    /\ UNCHANGED codecVars

BlockNext ==
    \/ extractDenseNodesCall
    \/ extractWaysCall
    \/ extractRelationsCall
    \/ decodeTagsCall

BlockSpec == EncInit /\ [][BlockNext]_vars

\* -------------------------------------------------------------------- Pack
\* The BlobCompression values and the payload field each one fills.
Compressions == {"RAW", "ZLIB", "LZMA", "LZ4", "ZSTD"}
VariantOf(c) ==
    CASE c = "RAW" -> "raw" [] c = "ZLIB" -> "zlib" [] c = "LZMA" -> "lzma"
      [] c = "LZ4" -> "lz4" [] c = "ZSTD" -> "zstd"

\* Marshaled messages: up to MaxPayload bytes.
Bytes == {0, 1}
Payloads == UNION {SeqsOf(Bytes, n) : n \in 0 .. MaxPayload}

\* A compressed stream of variant v holding data, as the compressor leaves it
\* once closed: a head, the data, and the trailer that Close writes.
Stream(v, data) == <<v>> \o data \o <<"end">>
Sound(v, bytes) == Len(bytes) >= 2 /\ bytes[1] = v /\ bytes[Len(bytes)] = "end"
Inflate(bytes) == SubSeq(bytes, 2, Len(bytes) - 1)

\* newPacker (internal/encoder/header.go:123-138) and the packers'
\* constructors (packers/raw.go:37-42, 77-88, packers/lz4.go:30-35): a buffer
\* for the packed bytes behind a compressor, which holds what it was given
\* until it is closed; the raw packer's writer is the buffer itself.
newPacker(c) == [c |-> c, held |-> <<>>, buf |-> <<>>]

\* Packer.Write and Packer.Close, those of the writer the packer was built
\* around (header.go:79-89).
packerWrite(p, b) ==
    IF p.c = "RAW" THEN [p EXCEPT !.buf = @ \o b] ELSE [p EXCEPT !.held = @ \o b]
packerClose(p) ==
    IF p.c = "RAW" THEN p
    ELSE [p EXCEPT !.buf = @ \o Stream(VariantOf(p.c), p.held), !.held = <<>>]

\* SaveTo (packers/raw.go:44-46, 90-92, packers/lz4.go:37-39): the buffer's
\* bytes become the blob's payload of the packer's variant.
SaveTo(p, blob) == [blob EXCEPT !.data = VariantOf(p.c), !.bytes = p.buf]

\* A Pack that saves the payload before it closes the compressor.
PackSaveBeforeClose(b, c) ==
    LET written == packerWrite(newPacker(c), b)
        blob == SaveTo(written, [raw_size |-> Len(b), data |-> Nil, bytes |-> <<>>])
    IN  [blob |-> blob, saved |-> written]

\* Pack (header.go:91-120) of the marshaled message b: Write, Close, the blob
\* with raw_size, SaveTo.  The result is the blob, with the packer as it is
\* when SaveTo is called.
Pack(b, c) ==
    LET written == packerWrite(newPacker(c), b)
        closed == packerClose(written)
        blob == SaveTo(closed, [raw_size |-> Len(b), data |-> Nil, bytes |-> <<>>])
    IN  [blob |-> blob, saved |-> closed]

\* unpack (unnamed/part_011:38-81) of a blob with its bytes: the payload's
\* bytes where unpack gives a payload.
unpackBytes(blob) ==
    LET raw == blob.data = "raw"
        sound == raw \/ Sound(blob.data, blob.bytes)
        bytes == IF raw THEN blob.bytes ELSE IF sound THEN Inflate(blob.bytes) ELSE <<>>
        r == unpack([data |-> blob.data, len |-> Len(bytes), raw_size |-> blob.raw_size,
                     sound |-> sound])
    IN  [payload |-> IF r.err = Nil THEN bytes ELSE <<>>, err |-> r.err]

PackCall ==
    /\ call = NoCall
    /\ \E b \in Payloads, c \in Compressions :
         /\ call' = Call("Pack", [b |-> b, c |-> c])
         /\ result' = Pack(b, c)
    /\ UNCHANGED codecVars

\* ------------------------------------------------------------------ members
\* model.EntityType (model/entities.go:104-113) and the values of
\* pb.Relation_MemberType that decodeMemberType names (primitive.go:297-308).
NODE == 0
WAY == 1
RELATION == 2
Relation_NODE == 0
Relation_WAY == 1
Relation_RELATION == 2
MaxMembers == 2

\* pb.Relation_MemberType(m.Type) (internal/encoder/primitive.go:228): the
\* number of the EntityType
toMemberTypePb(type) == type

\* decodeMemberType (internal/decoder/primitive.go:296-308) panics for a value
\* it does not name: NoIndex stands for that.
decodeMemberType(mt) ==
    CASE mt = Relation_NODE -> NODE
      [] mt = Relation_WAY -> WAY
      [] mt = Relation_RELATION -> RELATION
      [] OTHER -> NoIndex

\* decodeMembers (internal/decoder/primitive.go:147-165): memtypes and
\* memroles are indexed by the position of the memid, the string table by
\* the role.
decodeMembers(node) ==
    IF \E i \in DOMAIN node.memids :
           \/ i > Len(node.types) \/ i > Len(node.roles_sid)
           \/ decodeMemberType(node.types[i]) = NoIndex
           \/ node.roles_sid[i] \notin 0 .. Len(BlockStrings) - 1
      THEN Panics
      ELSE Gives([i \in DOMAIN node.memids |->
                    [ID   |-> RunningSum(node.memids, i, Int64Bits),
                     Type |-> decodeMemberType(node.types[i]),
                     Role |-> BlockStrings[node.roles_sid[i] + 1]]], Nil)

\* relations with up to MaxMembers members whose types are the three that
\* are named and the next number
MemberLists ==
    UNION {[memids : {Ones(n)}, types : SeqsOf(0 .. RELATION + 1, n),
            roles_sid : SeqsOf(0 .. Len(BlockStrings) - 1, n)] : n \in 0 .. MaxMembers}

decodeMembersCall ==
    /\ call = NoCall
    /\ \E node \in MemberLists :
         /\ call' = Call("decodeMembers", node)
         /\ result' = decodeMembers(node)
    /\ UNCHANGED codecVars

\* ------------------------------------------------------------ pooled buffers
\* Everything but the pool, the DecodeBatch goroutine and the blob reader.
bufFrame ==
    <<decVars, callerVars, onceVars, producerVars, laneVars, mergeVars, extractVars,
      encq, packq, saverVars, consumerVars, writerVars, panicked, ctorVars, call, result>>

\* NewPooledBuffer (internal/core/buffer.go:32-34): bufferPool.Get() gives a
\* buffer that sits in the pool, or one that New makes.  The buffers Get can
\* give, and the pool once it has given b.
Gets(p) ==
    {b \in Buffers : p.free[b] > 0} \cup (IF p.made < MaxBuffers THEN {p.made + 1} ELSE {})
NewPooledBuffer(p, b) ==
    IF p.free[b] > 0 THEN [p EXCEPT !.free[b] = @ - 1] ELSE [p EXCEPT !.made = b, !.len[b] = 0]

\* A Close that puts the buffer back as it is.
PooledBufferCloseAsItIs(p, b) == [p EXCEPT !.free[b] = @ + 1]

\* PooledBuffer.Close (buffer.go:36-40): Reset, then Put
PooledBufferClose(p, b) == [p EXCEPT !.len[b] = 0, !.free[b] = @ + 1]

\* bytes.Buffer's Reset, and a write into the buffer
BufferReset(p, b) == [p EXCEPT !.len[b] = 0]
BufferWrite(p, b) == [p EXCEPT !.len[b] = 1]

\* -------------------------------------------------------------- DecodeBatch
\* The blobs of a batch: one that unpacks and parses (raw, or compressed and
\* read through the buffer), one that unpack refuses, one that
\* parsePrimitiveBlock refuses, and one on which it panics
\* (primitive.go:147-165, 296-308).
MaxBatch == 3
GoodBlobs == {"raw", "zlib"}
BlobKinds == GoodBlobs \cup {"unpack error", "parse error", "parse panic"}
BlobArrays == UNION {SeqsOf(BlobKinds, n) : n \in 0 .. MaxBatch}
Entities(k) == [Value |-> k, Error |-> Nil]
\* a failure carries the nil slice, written 0
Failure(kind) == [Value |-> 0, Error |-> kind]

\* DecodeBatch (internal/decoder/batch.go:13-49), up to `go func()`: the
\* channel and the buffer
DecodeBatchCall ==
    /\ dbatch.pc \in {"idle", "done"}
    /\ \E array \in BlobArrays, b \in Gets(pool) :
         /\ dbatch' = [NoBatch EXCEPT !.pc = "loop", !.array = array, !.buf = b]
         /\ pool' = NewPooledBuffer(pool, b)
    /\ UNCHANGED <<bufFrame, rdr>>

\* The goroutine's deferred calls (batch.go:21-22), buf.Close() and
\* close(ch): the goroutine once they have run.
Deferred(bt, pc) == [bt EXCEPT !.pc = pc, !.closed = TRUE, !.buf = NoBuffer]

\* One turn of the loop up to its send (batch.go:24-44): Reset, unpack,
\* parsePrimitiveBlock.  A panic of parsePrimitiveBlock runs the deferred
\* calls and ends the program.
DecodeBatchBlob ==
    /\ dbatch.pc = "loop"
    /\ dbatch.i < Len(dbatch.array)
    /\ LET k == dbatch.i + 1
           kind == dbatch.array[k]
           reset == BufferReset(pool, dbatch.buf)
       IN  IF kind = "parse panic"
           THEN /\ dbatch' = Deferred(dbatch, "panic")
                /\ pool' = PooledBufferClose(BufferWrite(reset, dbatch.buf), dbatch.buf)
           ELSE /\ dbatch' = [dbatch EXCEPT
                     !.pc = "send",
                     !.val = IF kind \in GoodBlobs THEN Entities(k) ELSE Failure(kind)]
                /\ pool' = IF kind = "raw" THEN reset ELSE BufferWrite(reset, dbatch.buf)
    /\ UNCHANGED <<bufFrame, rdr>>

\* A send that goes on with the loop whatever it sent.
DecodeBatchSendAndGoOn ==
    /\ dbatch.pc = "send"
    /\ dbatch' = [dbatch EXCEPT !.pc = "loop", !.i = @ + 1, !.out = Append(@, dbatch.val)]
    /\ pool' = pool
    /\ UNCHANGED <<bufFrame, rdr>>

\* The send on the unbuffered channel, taken by the receiver (batch.go:31-33,
\* 39-41, 44): after an error the goroutine returns, after a batch it goes on
\* with the next blob.
DecodeBatchSend ==
    /\ dbatch.pc = "send"
    /\ LET sent == [dbatch EXCEPT !.out = Append(@, dbatch.val)]
       IN  IF dbatch.val.Error # Nil
           THEN /\ dbatch' = Deferred(sent, "done")
                /\ pool' = PooledBufferClose(pool, dbatch.buf)
           ELSE /\ dbatch' = [sent EXCEPT !.pc = "loop", !.i = @ + 1]
                /\ pool' = pool
    /\ UNCHANGED <<bufFrame, rdr>>

\* The end of the array (batch.go:24, 46): the goroutine returns.
DecodeBatchReturn ==
    /\ dbatch.pc = "loop"
    /\ dbatch.i = Len(dbatch.array)
    /\ dbatch' = Deferred(dbatch, "done")
    /\ pool' = PooledBufferClose(pool, dbatch.buf)
    /\ UNCHANGED <<bufFrame, rdr>>

\* -------------------------------------------------- the blob reader's buffers
\* The program runs on until a goroutine panics.
Running == dbatch.pc # "panic"

\* LoadHeader (internal/decoder/header.go:29-71) and GenerateBlobReader
\* (internal/decoder/blob.go:33-62) take a buffer on entry.
OuterFunctions == {"LoadHeader", "GenerateBlobReader"}
ReaderCall ==
    /\ Running
    /\ rdr.outer = "-"
    /\ \E f \in OuterFunctions, b \in Gets(pool) :
         /\ rdr' = [rdr EXCEPT !.outer = f, !.obuf = b]
         /\ pool' = NewPooledBuffer(pool, b)
    /\ UNCHANGED <<bufFrame, dbatch>>

\* readBlobHeader (blob.go:81-105) and readBlobData (blob.go:109-124), called
\* through readBlob by either, take a buffer of their own.
InnerFunctions == {"readBlobHeader", "readBlobData"}
ReadCall ==
    /\ Running
    /\ rdr.outer # "-"
    /\ rdr.inner = "-"
    /\ \E g \in InnerFunctions, b \in Gets(pool) :
         /\ rdr' = [rdr EXCEPT !.inner = g, !.ibuf = b]
         /\ pool' = NewPooledBuffer(pool, b)
    /\ UNCHANGED <<bufFrame, dbatch>>

\* io.CopyN into the function's buffer (blob.go:91, 113)
ReadCopy ==
    /\ Running
    /\ rdr.inner # "-"
    /\ pool' = BufferWrite(pool, rdr.ibuf)
    /\ UNCHANGED <<bufFrame, dbatch, rdr>>

\* Either returns, with a value or an error: the deferred buf.Close()
\* (blob.go:83, 111).
ReadReturn ==
    /\ Running
    /\ rdr.inner # "-"
    /\ rdr' = [rdr EXCEPT !.inner = "-", !.ibuf = NoBuffer]
    /\ pool' = PooledBufferClose(pool, rdr.ibuf)
    /\ UNCHANGED <<bufFrame, dbatch>>

\* LoadHeader unpacks into its buffer (header.go:49); GenerateBlobReader
\* resets its own after each blob (blob.go:58).
ReaderUse ==
    /\ Running
    /\ rdr.outer # "-"
    /\ rdr.inner = "-"
    /\ pool' = IF rdr.outer = "LoadHeader"
               THEN BufferWrite(pool, rdr.obuf)
               ELSE BufferReset(pool, rdr.obuf)
    /\ UNCHANGED <<bufFrame, dbatch, rdr>>

\* The outer function returns: the deferred buffer.Close() (header.go:31,
\* blob.go:36).
ReaderReturn ==
    /\ Running
    /\ rdr.outer # "-"
    /\ rdr.inner = "-"
    /\ rdr' = [rdr EXCEPT !.outer = "-", !.obuf = NoBuffer]
    /\ pool' = PooledBufferClose(pool, rdr.obuf)
    /\ UNCHANGED <<bufFrame, dbatch>>

BufNext ==
    \/ DecodeBatchCall
    \/ DecodeBatchBlob
    \/ DecodeBatchSend
    \/ DecodeBatchReturn
    \/ ReaderCall
    \/ ReadCall
    \/ ReadCopy
    \/ ReadReturn
    \/ ReaderUse
    \/ ReaderReturn

BufSpec == EncInit /\ [][BufNext]_vars

\* ------------------------------------------- the functions' specification
\* Any function, on any of its arguments: a function's result depends on
\* nothing but them, so each behaviour applies one function once.
PureNext ==
    \/ NewDecoderCall
    \/ LoadHeaderCall
    \/ readBlobDataCall
    \/ unpackCall
    \/ decodeDenseNodesCall
    \/ toInfoPbCall
    \/ calcDeltasCall
    \/ CalcTableCall
    \/ calcTagIDsCall
    \/ PackCall
    \/ decodeMembersCall

PureSpec == EncInit /\ [][PureNext]_vars

\* ================================================================== claims
IsPrefix(s, t) == Len(s) <= Len(t) /\ \A p \in 1..Len(s) : s[p] = t[p]

RECURSIVE FileOrderUpTo(_)
\* The entities of data blobs 1..k in stream order, block order within each.
FileOrderUpTo(k) == IF k = 0 THEN <<>> ELSE FileOrderUpTo(k - 1) \o EntitiesOf(k)
FileOrder == FileOrderUpTo(Len(file))

ReturnedElements == [p \in 1..Len(ReturnedEntities) |-> ReturnedEntities[p].element]
AllTerminated == rpc = "done" /\ mpc = "done" /\ \A i \in Lanes : wpc[i] = "done"
LastIsEof == returned # <<>> /\ returned[Len(returned)].more = FALSE
IsEofReturn(r) == r.err = EOF /\ r.more = FALSE

\* C1: at every moment, in every interleaving and also after Close or an
\* error, the entities Decode has returned so far are a prefix of the
\* file-order sequence.
C1_OrderPreserved == IsPrefix(ReturnedElements, FileOrder)

C1_Witness ==
    /\ nCPU = 2 /\ ctxDone /\ Len(file) = 3
    /\ Len(ReturnedElements) >= 4
    /\ ReturnedElements = FileOrder

\* C2: with no read or decode error and no Close, what Decode returned before
\* the first io.EOF is exactly the entities of every data blob, each once,
\* and never the header (frame 0, consumed by NewDecoder).
WellFormedFile == \A k \in 1..Len(file) : file[k].kind = "ok"
HeaderElement == <<0, 1>>
C2_ExactlyOnce ==
    (LastIsEof /\ closeCalls = 0 /\ tail = "end" /\ WellFormedFile)
        => /\ ReturnedElements = FileOrder
           /\ \A p \in 1..Len(returned) : returned[p].element # HeaderElement
           /\ \A p \in 1..Len(returned) : returned[p].err \in {Nil, EOF}

C2_Witness ==
    /\ LastIsEof /\ closeCalls = 0 /\ tail = "end" /\ WellFormedFile
    /\ nCPU = 2 /\ Len(file) = 3 /\ Len(FileOrder) >= 5

\* C3: on a finite well-formed stream, for every worker count and every
\* channel capacity, a consumer that keeps calling Decode eventually gets
\* io.EOF, gets io.EOF on every later call, the reader and the merger have
\* terminated when the first io.EOF is returned, and every goroutine of the
\* pipeline has terminated from some moment on.
EofSticky == \A p \in 1..(Len(returned) - 1) : IsEofReturn(returned[p]) => IsEofReturn(returned[p + 1])
FailureTails == {"shortPrefix", "shortHeader", "badHeader", "shortBlob", "badBlob"}
BadBlobs == {k \in 1..Len(file) : file[k].kind = "bad"}
Failed == BadBlobs # {} \/ tail \in FailureTails
\* the first frame that fails
FirstFailure == IF BadBlobs # {} THEN CHOOSE k \in BadBlobs : \A j \in BadBlobs : k <= j
                ELSE Len(file) + 1
IsErrorReturn(r) == r.err # Nil /\ r.more = TRUE
ErrorThenEof(before) ==
    /\ IsPrefix(ReturnedElements, before)
    /\ LastIsEof =>
         /\ Len(returned) > Len(before) + 1
         /\ \A p \in 1..Len(before) : returned[p].element = before[p] /\ returned[p].err = Nil
         /\ IsErrorReturn(returned[Len(before) + 1])
         /\ \A p \in (Len(before) + 2)..Len(returned) : IsEofReturn(returned[p])
C4_ErrorOnceThenEof ==
    (closeCalls = 0 /\ Failed) => ErrorThenEof(FileOrderUpTo(FirstFailure - 1))

\* C4 without the stream cut inside the BlobHeader bytes: every other
\* failure is reported once, after the entities before it.
C4_ExceptShortHeader ==
    (closeCalls = 0 /\ Failed /\ ~(BadBlobs = {} /\ tail = "shortHeader"))
        => ErrorThenEof(FileOrderUpTo(FirstFailure - 1))

\* C5: after Close the reader, every worker and the merger eventually
\* terminate, even when the consumer calls Decode no more.
C5_CloseTerminatesPipeline == ctxDone ~> AllTerminated

\* C6: after Close, a consumer that keeps calling Decode eventually gets
\* io.EOF, and no Decode returns an error other than that io.EOF.
C6_CloseThenEof ==
    /\ ctxDone ~> LastIsEof
    /\ [](\A p \in 1..Len(returned) : returned[p].err = Nil \/ IsEofReturn(returned[p]))

C6_Witness ==
    /\ ctxDone /\ LastIsEof /\ tail = "cancel"
    /\ nCPU = 2 /\ Len(ReturnedElements) >= 1

\* C7: Close never blocks, whatever the pipeline and a concurrent Decode are
\* doing, and a Close after the first changes nothing in the pipeline.
pipelineVars == <<nCPU, inputChannelLength, outputChannelLength, decodedChannelLength,
                  ctxDone, file, tail, rpc, ri, inputs, inputsClosed, wpc, wval,
                  outputs, outputsClosed, mpc, mi, mq, pairs, pairsClosed,
                  cpc, returned>>
C7_CloseIdempotent ==
    /\ [](closeCalls < MaxCloseCalls => ENABLED Close)
    /\ [][(Close /\ closeCalls >= 1) => UNCHANGED pipelineVars]_vars

C7_Witness == closeCalls = 2 /\ cpc = "wait" /\ rpc = "run" /\ mpc # "done"

\* C8: if Close is called once CloseAfter entities have been returned while
\* the stream holds more undelivered data blobs than the pipeline can hold,
\* Decode returns strictly fewer entities than the stream has before io.EOF.
\* The pipeline's hold is counted generously: every channel slot, plus the
\* value each worker and the merger may have in hand.
PipelineHolds ==
    nCPU * (inputChannelLength + outputChannelLength) + decodedChannelLength + nCPU + 1
BlobsDeliveredAfter(c) == Cardinality({k \in 1..Len(file) : Len(FileOrderUpTo(k)) <= c})
C8_CloseStopsShort ==
    (/\ closedAtMark /\ LastIsEof /\ rpc = "done" /\ WellFormedFile
     /\ Len(file) - BlobsDeliveredAfter(CloseAfter) > PipelineHolds)
        => Len(ReturnedElements) < Len(FileOrder)

\* ---------------------------------------------------------- encoder claims
RECURSIVE EntitiesWritten(_)
\* The entities of the blocks in frames, in file order.
EntitiesWritten(frames) ==
    IF frames = <<>> THEN <<>>
    ELSE EntitiesWritten(SubSeq(frames, 1, Len(frames) - 1)) \o frames[Len(frames)].body.ents

TimesWritten(e) ==
    Cardinality({p \in 1..Len(EntitiesWritten(scratch)) : EntitiesWritten(scratch)[p] = e})

\* what the final writer holds when writeHeaderAndBody is through
FinalFile == <<HeaderFrame(bbox)>> \o scratch

C10_EveryEntityOnce ==
    /\ \A p \in 1..Len(EntitiesWritten(scratch)) :
         /\ TimesWritten(EntitiesWritten(scratch)[p]) = 1
         /\ \E q \in 1..Len(accepted) : accepted[q] = EntitiesWritten(scratch)[p]
    /\ statusesDone => \A q \in 1..Len(accepted) : TimesWritten(accepted[q]) = 1

\* C10 for the entities handed over as pointers (*model.Node, *model.Way,
\* *model.Relation): each is written exactly once.
C10_PointersOnce ==
    /\ \A p \in 1..Len(EntitiesWritten(scratch)) :
         /\ TimesWritten(EntitiesWritten(scratch)[p]) = 1
         /\ \E q \in 1..Len(accepted) : accepted[q] = EntitiesWritten(scratch)[p]
    /\ statusesDone => \A q \in 1..Len(accepted) :
         accepted[q].type \in PointerTypes => TimesWritten(accepted[q]) = 1

C10_PointersWitness ==
    /\ statusesDone
    /\ Len(accepted) = 4
    /\ \A q \in 1..Len(accepted) : accepted[q].type \in PointerTypes
    /\ Len(scratch) >= 3

\* The entities of the data frames the final writer holds, in file order.
FileEntities == IF wrtr = <<>> THEN <<>> ELSE EntitiesWritten(Tail(wrtr))

\* e is at some position of seq before some position of f.
Precedes(e, f, seq) ==
    \E p \in 1..Len(seq) : \E q \in 1..Len(seq) : p < q /\ seq[p] = e /\ seq[q] = f

\* C11: once the final file is written, any two entities of the same type
\* accepted in the order a then b are in it with a before b.
C11_OrderWithinType ==
    hpc = "done" =>
        \A i \in 1..Len(accepted) : \A j \in 1..Len(accepted) :
            (i < j /\ accepted[i].type = accepted[j].type)
                => Precedes(accepted[i], accepted[j], FileEntities)

\* C11 for what is written: entities of one type are in the scratch file and
\* in the final file in the order they were pushed, at every moment.
InPushOrder(seq) ==
    \A p \in 1..Len(seq) : \A q \in 1..Len(seq) :
        (p < q /\ seq[p].type = seq[q].type) => seq[p].id < seq[q].id
C11_WrittenInOrder ==
    /\ InPushOrder(EntitiesWritten(scratch))
    /\ InPushOrder(FileEntities)
    /\ hpc = "done" =>
        \A i \in 1..Len(accepted) : \A j \in 1..Len(accepted) :
            (i < j /\ accepted[i].type = accepted[j].type /\ accepted[i].type \in PointerTypes)
                => Precedes(accepted[i], accepted[j], FileEntities)

C11_WrittenWitness ==
    /\ hpc = "done"
    /\ Len(wrtr) >= 3
    /\ \E i \in 1..Len(accepted) : \E j \in 1..Len(accepted) : \E k \in 1..Len(accepted) :
         /\ i < j /\ j < k
         /\ accepted[i].type = "*Way" /\ accepted[j].type = "*Way" /\ accepted[k].type = "*Way"

\* Every entity of seq has dynamic type t.
Homogeneous(seq, t) == \A p \in 1..Len(seq) : seq[p].type = t
OneType(seq) == seq # <<>> => Homogeneous(seq, seq[1].type)
OneTypeBlock(b) == b.kind \in PointerTypes /\ b.ents # <<>> /\ Homogeneous(b.ents, b.kind)

\* C12: every block written to the scratch file, and every block on its way
\* there, holds entities of exactly one type, the type of its group; and
\* every batch a lane fills or has emitted holds entities of the lane's type
\* only, so that a block is the whole of its batch.
C12_OneTypePerBlock ==
    /\ \A p \in 1..Len(scratch) : OneTypeBlock(scratch[p].body)
    /\ \A p \in 1..Len(encq) : OneTypeBlock(encq[p])
    /\ \A p \in 1..Len(packq) : OneTypeBlock(packq[p].value)
    /\ \A l \in LaneNames : Homogeneous(lacc[l], LaneType(l))
    /\ OneType(gcur)
    /\ OneType(xcur)

\* two entities of different types pushed in one slice, the first type
\* again later, and a block of each of the three types written
C12_Witness ==
    /\ Len(accepted) >= 4
    /\ accepted[1].type = "*Way" /\ accepted[2].type = "*Node" /\ accepted[3].type = "*Way"
    /\ \E p \in 1..Len(scratch) : scratch[p].body.kind = "*Node"
    /\ \E p \in 1..Len(scratch) : scratch[p].body.kind = "*Way"
    /\ \E p \in 1..Len(scratch) : scratch[p].body.kind = "*Relation"

\* C13: every block in the scratch file holds at most EntityLimit entities,
\* and of the blocks of one type every one but the last holds exactly
\* EntityLimit; a block with fewer is written only after the input closed.
BlockLen(p) == Len(scratch[p].body.ents)
C13_BlockSizes ==
    /\ \A p \in 1..Len(scratch) : BlockLen(p) >= 1 /\ BlockLen(p) <= EntityLimit
    /\ \A p \in 1..Len(scratch) : \A q \in 1..Len(scratch) :
         (p < q /\ scratch[p].body.kind = scratch[q].body.kind) => BlockLen(p) = EntityLimit
    /\ \A p \in 1..Len(scratch) : BlockLen(p) < EntityLimit => entitiesClosed

\* a lane that wrote a full block and then flushed a smaller last one
C13_Witness ==
    \E p \in 1..Len(scratch) : \E q \in 1..Len(scratch) :
        /\ p < q
        /\ scratch[p].body.kind = scratch[q].body.kind
        /\ BlockLen(p) = EntityLimit
        /\ BlockLen(q) < EntityLimit

\* The box spanned by a set of nodes: the largest and smallest latitude and
\* longitude among them; the initial box when there is none.
SetMax(S) == CHOOSE x \in S : \A y \in S : y <= x
SetMin(S) == CHOOSE x \in S : \A y \in S : x <= y
MinMaxBox(nodes) ==
    IF nodes = {} THEN InitialBoundingBox
    ELSE [top    |-> SetMax({Lat(n) : n \in nodes}),
          bottom |-> SetMin({Lat(n) : n \in nodes}),
          left   |-> SetMin({Lon(n) : n \in nodes}),
          right  |-> SetMax({Lon(n) : n \in nodes})]
AcceptedOfTypes(types) == {accepted[q] : q \in {r \in 1..Len(accepted) : accepted[r].type \in types}}

\* C14: the box in the header frame is the one spanned by every Node
\* accepted, whatever ways and relations were pushed; when the header is
\* written the bbox consumer has returned, and the box does not change
\* afterwards.
C14_HeaderBBox ==
    wrtr # <<>> =>
        /\ wrtr[1].body = MinMaxBox(AcceptedOfTypes({"*Node", "Node"}))
        /\ wrtr[1].body = bbox
        /\ bboxesDone

\* C14 for the nodes handed over as pointers.
C14_PointerNodesBBox ==
    wrtr # <<>> =>
        /\ wrtr[1].body = MinMaxBox(AcceptedOfTypes({"*Node"}))
        /\ wrtr[1].body = bbox
        /\ bboxesDone

\* nodes in two batches, a way pushed between them
C14_PointerNodesWitness ==
    /\ wrtr # <<>>
    /\ Len(accepted) = 4
    /\ accepted[1].type = "*Node" /\ accepted[2].type = "*Way"
    /\ accepted[3].type = "*Node" /\ accepted[4].type = "*Node"
    /\ wrtr[1].body = [top |-> 4, bottom |-> 1, left |-> -4, right |-> -1]

\* every goroutine of the encoder has returned and nothing is in flight
EncTerminated ==
    /\ ppc = "done"
    /\ \A l \in LaneNames : lpc[l] = "done" /\ lacc[l] = <<>>
    /\ gpc = "done"
    /\ xpc = "done"
    /\ encq = <<>> /\ packq = <<>>
    /\ spc = "done"
    /\ bboxesDone /\ statusesDone
    /\ hpc = "done"

\* C15: with no failing stage, a Close that was called eventually returns,
\* and when it has returned every goroutine of the pipeline has terminated.
C15_CloseReturns ==
    /\ (epc = "closeWait") ~> (epc = "idle" /\ encCloseReturns = encCloseCalls)
    /\ [](encCloseReturns > 0 => EncTerminated)

C15_Witness ==
    /\ encCloseReturns > 0
    /\ EncTerminated
    /\ encodeCalls = MaxEncodeCalls
    /\ Len(accepted) = MaxEncodeCalls * MaxSlice
    /\ Len(scratch) >= 2

\* C16: close(e.Entities) runs at most once; the Once is done exactly when
\* the channel is closed and an error is latched; and once it is done no
\* step, a later Close or a later block error included, changes the latched
\* error, the Once or the channel.
C16_FirstWins ==
    /\ [](entitiesCloses <= 1)
    /\ []((closeOnce <=> entitiesClosed) /\ (closeOnce <=> eerr # Nil))
    /\ [][closeOnce => UNCHANGED onceVars]_vars

\* a block error was latched first, and Close has been called twice since
C16_Witness ==
    /\ eerr \in {ErrPack, ErrWrite}
    /\ encCloseCalls = 2
    /\ encCloseReturns = 2

\* the errors a block can fail with
BlockErrors == {ErrPack, ErrWrite}

\* C17: when packing or writing a block has failed, a Close that has
\* returned reports the first such failure, whether the failure came before
\* or after the caller's Close.
C17_CloseReportsFirstFailure ==
    (encCloseReturns > 0 /\ firstFailure # Nil) => CloseResult = firstFailure

\* C17, read on the field instead of on Close's result: when a block has
\* failed and Close has returned, Encoder.err is the first failure.
C17_LatchedIsFirstFailure ==
    (encCloseReturns > 0 /\ firstFailure # Nil) => eerr = firstFailure

\* C18: once a block error is latched in Encoder.err, no step appends a data
\* block to the scratch file.
C18_NothingSavedAfterError ==
    [][(eerr \in BlockErrors /\ Len(scratch') > Len(scratch))
         => scratch'[Len(scratch')].type # "OSMData"]_vars

\* C19: when the store directory does not exist, NewEncoder returns a nil
\* encoder and ErrCreateTempFile, and the process does not crash.
C19_NewEncoderFails ==
    (epc # "new" /\ cfg.store = MissingDir)
        => (~panicked /\ nret = Returned(Nil, ErrCreateTempFile))

\* a dense node block is in the scratch file
DenseWritten ==
    \E p \in 1..Len(scratch) :
        scratch[p].type = "OSMData" /\ scratch[p].body.kind = "*Node"

Features(frame) == {frame.required_features[i] : i \in 1..Len(frame.required_features)}

\* C20: the header written by an encoder built without options has
\* "OsmSchema-V0.6" among its required features, and "DenseNodes" when a
\* dense node block was written.
C20_DefaultRequiredFeatures ==
    \A p \in 1..Len(wrtr) :
        (opts = <<>> /\ wrtr[p].type = "OSMHeader")
            => /\ "OsmSchema-V0.6" \in Features(wrtr[p])
               /\ DenseWritten => "DenseNodes" \in Features(wrtr[p])

\* C21: when the stream ends inside a frame (inside the length prefix, the
\* BlobHeader bytes or the Blob bytes) a consumer that reads to the end is
\* given an error other than io.EOF; when it ends at a frame boundary the
\* consumer is given no error but the final io.EOF.
CutTails == {"shortPrefix", "shortHeader", "shortBlob"}
ReadToEnd == closeCalls = 0 /\ LastIsEof /\ BadBlobs = {}
C21_TruncationReported ==
    /\ (ReadToEnd /\ tail \in CutTails)
           => \E p \in 1..Len(returned) : returned[p].err \notin {Nil, EOF}
    /\ (ReadToEnd /\ tail = "end")
           => \A p \in 1..Len(returned) : returned[p].more => returned[p].err = Nil

\* C21 for a stream that ends inside the length prefix only.
C21_PrefixCutReported ==
    /\ (ReadToEnd /\ tail = "shortPrefix")
           => \E p \in 1..Len(returned) : returned[p].err \notin {Nil, EOF}
    /\ (ReadToEnd /\ tail = "end")
           => \A p \in 1..Len(returned) : returned[p].more => returned[p].err = Nil

C21_PrefixCutWitness ==
    /\ ReadToEnd /\ tail = "shortPrefix" /\ Len(file) = 2
    /\ returned[Len(returned) - 1].err = "io.ErrUnexpectedEOF"

\* C22: opening a stream whose first frame has a BlobHeader.type other than
\* "OSMHeader" gives an error and no header or decoder, and does not crash.
C22_MissingHeader ==
    (call.fn \in {"NewDecoder", "LoadHeader"} /\ call.args.type # "OSMHeader")
        => (~result.panic /\ result.err # Nil /\ result.value = Nil)

\* C22 for a first frame of a type that is neither OSMHeader nor OSMData,
\* opened with NewDecoder.
C22_UnknownTypeRejected ==
    (call.fn = "NewDecoder" /\ call.args.type = "Other")
        => (~result.panic /\ result.err = ErrUnknownHeaderType /\ result.value = Nil)

C22_UnknownTypeWitness ==
    call.fn = "NewDecoder" /\ call.args.type = "Other" /\ result.err = ErrUnknownHeaderType

\* C23: a frame whose BlobHeader announces a datasize above 64 MiB is
\* rejected with an error before any of its Blob bytes is read.
C23_FrameTooLarge ==
    (call.fn = "readBlobData" /\ call.args.size > MaxDataSize)
        => (result.err # Nil /\ result.read = 0)

\* C24: for every payload variant unpack gives an error when the length of
\* the uncompressed payload differs from raw_size, and gives the payload
\* only when the two are equal.
C24_SizeMismatch ==
    (call.fn = "unpack" /\ call.args.data \in Variants)
        => /\ call.args.len # call.args.raw_size => (result.err # Nil /\ result.payload = Nil)
           /\ result.err = Nil => (result.payload = call.args.len /\ call.args.len = call.args.raw_size)

\* C24 for the compressed variants.
C24_CompressedSizeMismatch ==
    (call.fn = "unpack" /\ call.args.data \in Compressed)
        => /\ call.args.len # call.args.raw_size => (result.err # Nil /\ result.payload = Nil)
           /\ result.err = Nil => (result.payload = call.args.len /\ call.args.len = call.args.raw_size)

C24_CompressedWitness ==
    /\ call.fn = "unpack" /\ call.args.data = "zstd" /\ call.args.sound
    /\ call.args.len = 2 /\ call.args.raw_size = 1 /\ result.err = ErrRawSize

\* C25: after one or more ExpandWithLatLng and ExpandWithBoundingBox calls on
\* a box made by InitialBoundingBox, Bottom <= Top and Left <= Right.
WellFormedBox(b) == b.bottom <= b.top /\ b.left <= b.right
Expands == {"ExpandWithLatLng", "ExpandWithBoundingBox"}
C25_WellFormedAfterExpand == call.fn \in Expands => WellFormedBox(bbox)

\* C25 for a box whose last expansion was with a point or with a well-formed
\* box.
C25_AfterWellFormedArgument ==
    (call.fn = "ExpandWithLatLng" \/ (call.fn = "ExpandWithBoundingBox" /\ WellFormedBox(call.args)))
        => WellFormedBox(bbox)

C25_AfterWellFormedWitness ==
    /\ call.fn = "ExpandWithBoundingBox" /\ WellFormedBox(call.args)
    /\ bbox = [top |-> MaxLat, left |-> MinLon, bottom |-> 0, right |-> 0]

\* C26: expanding never shrinks the box: after ExpandWithLatLng(lat, lng) it
\* contains (lat, lng) and every point it contained before; after
\* ExpandWithBoundingBox(o) with a well-formed o it contains the four corners
\* of o and every point it contained before.
Points == LatValues \X LonValues
Keeps(b, c) == \A p \in Points : Contains(b, p[1], p[2]) => Contains(c, p[1], p[2])
Corners(o) == {<<o.top, o.left>>, <<o.top, o.right>>, <<o.bottom, o.left>>, <<o.bottom, o.right>>}
C26_NeverShrinks ==
    [][/\ call'.fn = "ExpandWithLatLng"
            => (Contains(bbox', call'.args.lat, call'.args.lng) /\ Keeps(bbox, bbox'))
       /\ (call'.fn = "ExpandWithBoundingBox" /\ WellFormedBox(call'.args))
            => /\ \A p \in Corners(call'.args) : Contains(bbox', p[1], p[2])
               /\ Keeps(bbox, bbox')]_vars

\* a box that held points was expanded with a point outside it, and one with
\* a well-formed box
C26_Witness ==
    /\ call.fn = "ExpandWithLatLng" /\ call.args = [lat |-> 0, lng |-> 0]
    /\ bbox = [top |-> MaxLat, left |-> MinLon, bottom |-> 0, right |-> 0]

\* C27: a DenseNodes group that carries no DenseInfo decodes without failure:
\* one Node per id, in order, each with the default Info and Visible = true.
DefaultInfo ==
    [Version |-> 0, UID |-> 0, Timestamp |-> 0, Changeset |-> 0, User |-> "", Visible |-> TRUE]
C27_NoDenseInfo ==
    (call.fn = "decodeDenseNodes" /\ ~call.args.denseinfo.present)
        => /\ ~result.panic
           /\ Len(result.value) = Len(call.args.id)
           /\ \A i \in 1 .. Len(call.args.id) :
                /\ result.value[i].ID = RunningSum(call.args.id, i, Int64Bits)
                /\ result.value[i].Info = DefaultInfo

\* a group without ids and without DenseInfo does decode, to no node
C27_NoIds ==
    (call.fn = "decodeDenseNodes" /\ ~call.args.denseinfo.present /\ call.args.id = <<>>)
        => (~result.panic /\ result.value = <<>>)

\* C28: in dense-node decoding the per-node visibility is used if and only
\* if len(visible) = len(id); for every other length of visible (absent,
\* empty, shorter or longer) every node is decoded as visible, and decoding
\* does not fail.
PerNode(nodes) ==
    ~nodes.denseinfo.visible.isnil /\ Len(nodes.denseinfo.visible.elems) = Len(nodes.id)
C28_VisibleByLength ==
    (call.fn = "decodeDenseNodes" /\ call.args.denseinfo.present)
        => /\ ~result.panic
           /\ \A i \in 1 .. Len(call.args.id) :
                result.value[i].Info.Visible =
                    IF PerNode(call.args) THEN call.args.denseinfo.visible.elems[i] ELSE TRUE

\* with visible absent, empty or as long as id, the rule is the code's
C28_AbsentEmptyOrEqual ==
    (/\ call.fn = "decodeDenseNodes" /\ call.args.denseinfo.present
     /\ \/ Len(call.args.denseinfo.visible.elems) = 0
        \/ Len(call.args.denseinfo.visible.elems) = Len(call.args.id))
        => /\ ~result.panic
           /\ \A i \in 1 .. Len(call.args.id) :
                result.value[i].Info.Visible =
                    IF PerNode(call.args) THEN call.args.denseinfo.visible.elems[i] ELSE TRUE

\* two nodes decoded with their own flags
C28_PerNodeWitness ==
    /\ call.fn = "decodeDenseNodes" /\ call.args.denseinfo.present
    /\ call.args.denseinfo.visible = Slice(<<FALSE, TRUE>>)
    /\ ~result.panic /\ Len(result.value) = MaxIds
    /\ ~result.value[1].Info.Visible /\ result.value[2].Info.Visible

\* C29: the decoded timestamp equals raw_ts x date_granularity milliseconds
\* since the epoch for every raw value the field can hold, with no truncation
\* or wrap-around: the dense timestamps, whose raw value is the int64 running
\* sum of the column, and the timestamps at whole seconds that the encoder
\* writes with toInfoPb decode to the original instant.
C29_TimestampExact ==
    /\ (call.fn = "decodeDenseNodes" /\ ~result.panic)
          => \A i \in 1 .. Len(call.args.id) :
                result.value[i].Info.Timestamp =
                    RunningSum(call.args.denseinfo.timestamp, i, Int64Bits) * DateGranularityMs
    /\ (call.fn = "toInfoPb" /\ call.args.Timestamp % DateGranularityMs = 0)
          => decodeInfo(result).Timestamp = call.args.Timestamp

\* raw values that an int32 holds are decoded exactly
C29_ExactWithinInt32 ==
    /\ (call.fn = "decodeDenseNodes" /\ ~result.panic)
          => \A i \in 1 .. Len(call.args.id) :
                LET raw == RunningSum(call.args.denseinfo.timestamp, i, Int64Bits)
                IN  raw <= MaxInt32 => result.value[i].Info.Timestamp = raw * DateGranularityMs
    /\ (/\ call.fn = "toInfoPb" /\ call.args.Timestamp % DateGranularityMs = 0
        /\ call.args.Timestamp <= MaxInt32 * DateGranularityMs)
          => decodeInfo(result).Timestamp = call.args.Timestamp

C29_WithinInt32Witness ==
    /\ call.fn = "decodeDenseNodes" /\ ~result.panic /\ Len(result.value) = MaxIds
    /\ result.value[MaxIds].Info.Timestamp = MaxInt32 * DateGranularityMs

\* C30: for every sequence v of int64 values calcDeltas(v) is as long as v,
\* its first element is v[0], and the running sum from zero that the decoder
\* applies gives v back.
C30_DeltaRoundTrip ==
    call.fn = "calcDeltas"
        => /\ Len(result) = Len(call.args)
           /\ Len(call.args) > 0 => result[1] = call.args[1]
           /\ decodeDeltas(result) = call.args

\* values whose differences do not fit an int64
C30_Witness ==
    /\ call.fn = "calcDeltas" /\ call.args = <<MaxInt64, MinInt64, 1>>
    /\ result = <<MaxInt64, 1, MinInt64 + 1>>

\* C33: CalcTable returns a table whose array is sorted with the reserved
\* empty string at index 0, and AsArray()[IndexOf(s)] = s for every string s
\* that was Added; calcTagIDs returns the key indices in ascending key order,
\* each paired with the index of that key's value.
C33_TableSortedAndIndexed ==
    /\ call.fn = "CalcTable"
          => /\ AsArray(result)[1] = notUsed
             /\ \A i \in 1 .. Len(AsArray(result)) - 1 : AsArray(result)[i] <= AsArray(result)[i + 1]
             /\ \A s \in call.args :
                   /\ TableIndexOf(result, s) \in 0 .. Len(AsArray(result)) - 1
                   /\ AsArray(result)[TableIndexOf(result, s) + 1] = s
    /\ call.fn = "calcTagIDs"
          => LET table == CalcTable(call.args.added)
                 tags == call.args.tags
                 n == Cardinality(DOMAIN tags)
             IN  /\ Len(result.keyIDs) = n /\ Len(result.valIDs) = n
                 /\ {AsArray(table)[result.keyIDs[i] + 1] : i \in 1 .. n} = DOMAIN tags
                 /\ \A i \in 1 .. n - 1 :
                       AsArray(table)[result.keyIDs[i] + 1] < AsArray(table)[result.keyIDs[i + 1] + 1]
                 /\ \A i \in 1 .. n :
                       AsArray(table)[result.valIDs[i] + 1] = tags[AsArray(table)[result.keyIDs[i] + 1]]

\* the empty string was Added with others: it is in the array twice
C33_Witness ==
    /\ call.fn = "CalcTable" /\ call.args = Words
    /\ Len(AsArray(result)) = MaxWord + 2
    /\ TableIndexOf(result, notUsed) = 1

\* C31: for every sequence of nodes with arbitrary tag maps, the keys_vals
\* that extractDenseNodes emits is decoded by successive decodeTags calls into
\* each node's tag map, in node order, the cursor ending at len(keys_vals); a
\* missing keys_vals gives an empty map for every node.
SameMap(a, b) == DOMAIN a = DOMAIN b /\ \A k \in DOMAIN a : a[k] = b[k]
C31_DenseTagsRoundTrip ==
    /\ call.fn = "extractDenseNodes"
          => LET n == Len(call.args)
                 decoded == decodeDenseTags(newTagsContext(result.S, result.KeysVals), n)
             IN  /\ ~decoded.panic
                 /\ Len(decoded.tags) = n
                 /\ \A i \in 1 .. n : SameMap(decoded.tags[i], call.args[i].Tags)
                 /\ n > 0 => decoded.tic.i = Len(result.KeysVals)
    /\ call.fn = "decodeTags"
          => /\ ~result.panic
             /\ Len(result.tags) = call.args.n
             /\ \A i \in 1 .. call.args.n : DOMAIN result.tags[i] = {}

\* two nodes: the first with the empty string as key, the second without tags
C31_Witness ==
    /\ call.fn = "extractDenseNodes" /\ Len(call.args) = MaxBlockEnts
    /\ DOMAIN call.args[1].Tags = {notUsed} /\ call.args[1].Tags[notUsed] = 1
    /\ DOMAIN call.args[2].Tags = {}
    /\ result.KeysVals = <<1, 2, 0, 0>>

\* C32: in every PrimitiveBlock the encoder produces, every key, value, user
\* and role index refers to a string-table entry that holds that string and
\* lies in [1, |S| - 1]; index 0 appears only as the dense-node tag
\* terminator, also when an entity uses the empty string as user, key, value
\* or role.
Refers(S, index, string) == index \in 1 .. Len(S) - 1 /\ S[index + 1] = string
TagsRefer(S, keys, vals, tags) ==
    /\ Len(keys) = Cardinality(DOMAIN tags) /\ Len(vals) = Len(keys)
    /\ {S[keys[j] + 1] : j \in DOMAIN keys} = DOMAIN tags
    /\ \A j \in DOMAIN keys :
          Refers(S, keys[j], S[keys[j] + 1]) /\ Refers(S, vals[j], tags[S[keys[j] + 1]])
C32_IndicesInTable ==
    /\ call.fn = "extractDenseNodes"
          => /\ \A p \in DOMAIN result.KeysVals : result.KeysVals[p] \in 0 .. Len(result.S) - 1
             /\ Occurrences(result.KeysVals, 0) = Len(call.args)
             /\ \A i \in DOMAIN call.args :
                   Refers(result.S, decodeDeltas(result.UserSid)[i], call.args[i].User)
    /\ call.fn = "extractWays"
          => \A i \in DOMAIN call.args :
                LET way == result.Ways[i]
                IN  /\ TagsRefer(result.S, way.Keys, way.Vals, call.args[i].Tags)
                    /\ Refers(result.S, way.UserSid, call.args[i].User)
    /\ call.fn = "extractRelations"
          => \A i \in DOMAIN call.args :
                LET relation == result.Relations[i]
                IN  /\ TagsRefer(result.S, relation.Keys, relation.Vals, call.args[i].Tags)
                    /\ Refers(result.S, relation.UserSid, call.args[i].User)
                    /\ Len(relation.RolesSid) = Len(call.args[i].Roles)
                    /\ \A j \in DOMAIN relation.RolesSid :
                          Refers(result.S, relation.RolesSid[j], call.args[i].Roles[j])

\* a relation whose user, key, value and role are the empty string
C32_Witness ==
    /\ call.fn = "extractRelations" /\ Len(call.args) = 1
    /\ call.args[1].User = notUsed /\ call.args[1].Roles = <<notUsed>>
    /\ DOMAIN call.args[1].Tags = {notUsed} /\ call.args[1].Tags[notUsed] = notUsed
    /\ result.S = <<notUsed, notUsed>>
    /\ result.Relations[1].RolesSid = <<1>>

\* C34: for every compression c in {RAW, ZLIB, LZMA, LZ4, ZSTD}, Pack closes
\* the compressor before it saves the payload, produces a Blob whose raw_size
\* is the uncompressed length and in which exactly the payload variant of c
\* is set, and unpack of that blob returns the original marshaled bytes.
C34_PackRoundTrip ==
    call.fn = "Pack"
        => /\ result.saved.held = <<>>
           /\ result.blob.raw_size = Len(call.args.b)
           /\ result.blob.data = VariantOf(call.args.c)
           /\ unpackBytes(result.blob) = [payload |-> call.args.b, err |-> Nil]

\* a payload of MaxPayload bytes packed with zstd
C34_Witness ==
    /\ call.fn = "Pack" /\ call.args.c = "ZSTD" /\ Len(call.args.b) = MaxPayload
    /\ result.blob.data = "zstd" /\ Len(result.blob.bytes) = MaxPayload + 2

\* C35: relation member types round-trip through NODE = 0, WAY = 1,
\* RELATION = 2 for every member of every relation (memids, types and
\* roles_sid being of equal length), and a member type outside {0, 1, 2}
\* ends decoding with the error UnknownMemberType instead of a Member.
ErrUnknownMemberType == "UnknownMemberType"
EntityTypeValues == {NODE, WAY, RELATION}
NamedTypes(node) == \A i \in DOMAIN node.types : node.types[i] \in {0, 1, 2}
C35_MemberTypes ==
    call.fn = "decodeMembers"
        => IF NamedTypes(call.args)
             THEN /\ ~result.panic /\ result.err = Nil
                  /\ Len(result.value) = Len(call.args.memids)
                  /\ \A i \in DOMAIN call.args.types :
                        /\ result.value[i].Type \in EntityTypeValues
                        /\ toMemberTypePb(result.value[i].Type) = call.args.types[i]
             ELSE ~result.panic /\ result.err = ErrUnknownMemberType

\* the three named types do round-trip
C35_NamedTypesRoundTrip ==
    (call.fn = "decodeMembers" /\ NamedTypes(call.args))
        => /\ ~result.panic /\ result.err = Nil
           /\ Len(result.value) = Len(call.args.memids)
           /\ \A i \in DOMAIN call.args.types :
                 /\ result.value[i].Type \in EntityTypeValues
                 /\ toMemberTypePb(result.value[i].Type) = call.args.types[i]

C35_NamedTypesWitness ==
    /\ call.fn = "decodeMembers" /\ call.args.types = <<Relation_RELATION, Relation_WAY>>
    /\ ~result.panic
    /\ result.value[1].Type = RELATION /\ result.value[2].Type = WAY

\* ---------------------------------------------------------------------- C36
\* The number of values DecodeBatch is to emit for an array: one per blob up
\* to and including the first that fails, one per blob if none fails.
Fails(array) == {k \in 1 .. Len(array) : array[k] \notin GoodBlobs}
FirstFailing(array) == CHOOSE k \in Fails(array) : \A j \in Fails(array) : k <= j
Emitted(array) == IF Fails(array) = {} THEN Len(array) ELSE FirstFailing(array)

\* What has been emitted is, in array order, the batch of each blob before
\* the first failing one and then the error of that one.
InArrayOrder ==
    \A k \in 1 .. Len(dbatch.out) :
        /\ k <= Len(dbatch.array)
        /\ \A j \in 1 .. k - 1 : dbatch.array[j] \in GoodBlobs
        /\ dbatch.out[k] = IF dbatch.array[k] \in GoodBlobs
                           THEN Entities(k)
                           ELSE Failure(dbatch.array[k])

\* C36: DecodeBatch emits, in array order, one batch per blob up to the first
\* blob that fails to unpack or parse, then exactly one error and nothing for
\* the later blobs, and whenever its goroutine has ended the channel is closed
\* and the buffer released.
C36_BatchesThenOneError ==
    /\ InArrayOrder
    /\ dbatch.pc \in {"done", "panic"} =>
         /\ dbatch.closed
         /\ dbatch.buf = NoBuffer
         /\ Len(dbatch.out) = Emitted(dbatch.array)

\* C36, for the blobs on which parsePrimitiveBlock returns: a goroutine that
\* returned has emitted every batch before the first failing blob and that
\* blob's error; one that ended in whatever way has closed the channel and
\* released the buffer, and the channel is closed only then.
C36_ReturnedBatchesThenOneError ==
    /\ InArrayOrder
    /\ dbatch.pc = "done" => Len(dbatch.out) = Emitted(dbatch.array)
    /\ dbatch.pc \in {"done", "panic"} => dbatch.closed /\ dbatch.buf = NoBuffer
    /\ dbatch.pc \in {"loop", "send"} => ~dbatch.closed /\ dbatch.buf # NoBuffer

\* a blob in the middle of the array failed: one batch, one error, and
\* nothing for the blob after it
C36_ReturnedWitness ==
    /\ dbatch.pc = "done"
    /\ Len(dbatch.array) = 3
    /\ Len(dbatch.out) = 2
    /\ dbatch.out[2].Error = "parse error"

\* a blob on which parsePrimitiveBlock panics: the goroutine ends without an
\* error on the channel
C36_PanicWitness ==
    /\ dbatch.pc = "panic"
    /\ Len(dbatch.out) < Emitted(dbatch.array)

\* ---------------------------------------------------------------------- C37
\* who holds buffer b
Holders(b) ==
    (IF dbatch.buf = b THEN {"DecodeBatch"} ELSE {})
        \cup (IF rdr.obuf = b THEN {rdr.outer} ELSE {})
        \cup (IF rdr.ibuf = b THEN {rdr.inner} ELSE {})

\* C37: a pooled buffer is held by at most one holder at a time; every buffer
\* taken is closed exactly once on every path, so that a buffer that exists
\* is either held once or sits in the pool once, and a function that is not
\* running holds none; every buffer in the pool has length zero.
C37_OneHolderAndEmptyInPool ==
    /\ \A b \in Buffers :
        /\ Cardinality(Holders(b)) <= 1
        /\ pool.free[b] + Cardinality(Holders(b)) = (IF b <= pool.made THEN 1 ELSE 0)
        /\ pool.free[b] > 0 => pool.len[b] = 0
    /\ dbatch.pc \in {"idle", "done", "panic"} <=> dbatch.buf = NoBuffer
    /\ rdr.outer = "-" <=> rdr.obuf = NoBuffer
    /\ rdr.inner = "-" <=> rdr.ibuf = NoBuffer

\* DecodeBatch ended on an error and its buffer, written by unpack, sits in
\* the pool while the blob reader holds the two others
C37_Witness ==
    /\ dbatch.pc = "done"
    /\ Len(dbatch.out) > 0
    /\ dbatch.out[Len(dbatch.out)].Error = "unpack error"
    /\ rdr.inner = "readBlobData"
    /\ pool.made = 3
    /\ \E b \in Buffers : pool.free[b] = 1 /\ pool.len[b] = 0
    /\ pool.len[rdr.ibuf] = 1

\* ---------------------------------------------------------------------- C38
\* C38: in no interleaving does Encode/EncodeBatch send on the entity channel
\* after that channel has been closed.
C38_NoSendOnClosedChannel == epc # "panic"

\* C38: the send of a caller that runs beside the status consumer's doClose
\* of a block error meets the closed channel as well (under EncFailSpec).
C38_NoSendBesideErrorClose == ~(epc = "panic" /\ eerr \notin {Nil, EOF} /\ encCloseCalls = 0)

\* ---------------------------------------------------------------------- C39
\* C39: every batch that Coalesce emits is non-empty, in the lanes, out of
\* the merge and in ExtractBoundingBoxes, so that no block is the panic of
\* extractPrimitiveBlock reading entities[0], and the program panics only in
\* the caller's send; EncodeBatch calls with an empty slice and a Close with
\* nothing pushed are among the inputs.
C39_BatchesNonEmpty ==
    /\ \A l \in LaneNames : lpc[l] \in {"send", "flush"} => lacc[l] # <<>>
    /\ gpc = "send" => gcur # <<>>
    /\ xpc \in {"ech", "bch"} => xcur # <<>>
    /\ \A k \in 1 .. Len(encq) : encq[k] # Panic
    /\ panicked => epc = "panic"

\* an EncodeBatch with an empty slice and one with a single entity were both
\* taken, the caller waits in Close, and the merge hands on the batch of the
\* one entity
C39_Witness ==
    /\ encodeCalls = 2
    /\ epc = "closeWait"
    /\ Len(accepted) = 1
    /\ gpc = "send"
    /\ Len(gcur) = 1

\* a Close with nothing pushed: every lane closes without a batch
C39_NothingPushedWitness ==
    /\ encCloseReturns > 0
    /\ accepted = <<>>
    /\ gpc = "done"
    /\ xpc = "done"

====
